---- MODULE Spec2Model ----
(***************************************************************************)
(* A model of the pika driver of oslo.messaging: the consumer poller       *)
(* (pika_poller.py), the RPC send retry loop of the driver facade          *)
(* (impl_pika.py) and the reply-correlation subsystem.                     *)
(***************************************************************************)
EXTENDS Integers, Sequences, FiniteSets, TLC

(***************************************************************************)
(* Bounds of the model.                                                    *)
(***************************************************************************)
\* connections the engine may create for the poller
MaxConns == 2
\* messages the broker delivers to the poller in total
MaxMsgs == 2
\* messages one slice of broker I/O dispatches at most
MaxBatch == 1

MaxRetry == 3

MaxSendTimeout == 2

MaxCalls == 2
MaxThreads == 2

\* Python's None, for the optional numbers (timeout, connection, channel)
None == -1

\* the threads that call poll
Threads == {1}

\* timeout arguments given to poll, in clock units (default None)
Timeouts == {None, 0, 1}

\* prefetch_size arguments given to poll (default 1)
PrefetchSizes == {1, 2}

(***************************************************************************)
(* Errors.  create_connection fails with the driver's ConnectionException; *)
(* the pika library raises its own errors, of which ConnectionClosed       *)
(* stands for those listed in pika_pool.Connection.connectivity_errors and *)
(* OtherError for every other exception (a declaration error, ...).        *)
(***************************************************************************)
NoError == "none"

PikaErrors == {"ConnectionClosed", "OtherError"}

\* except pika_pool.Connection.connectivity_errors
IsConnectivityError(e) == e \in {"ConnectionException", "ConnectionClosed"}

(***************************************************************************)
(* The poller.  Its fields and the broker's view of its channel form one   *)
(* record, so that _cleanup and _reconnect compose as in the code.         *)
(*   connection, channel : None or the id of the connection (a channel     *)
(*                         carries the id of its connection)               *)
(*   queues_to_consume   : <<>> for None, <<d>> for the dictionary d       *)
(*   message_queue       : the buffered messages, [id, channel]            *)
(*   made                : connections created so far (ids are 1..made)    *)
(*   live                : the connections created and not closed          *)
(*   qos                 : basic_qos was applied to the channel            *)
(*   consumers           : the queues basic_consume was issued for on the  *)
(*                         channel, with their ack mode                    *)
(*   declared            : the last _reconnect called                      *)
(*                         _declare_queue_binding                          *)
(*   opened_by           : the operation that opened the channel: "poll",  *)
(*                         "reconnect", or "none" without a channel, or    *)
(*                         "cleaned" when cleanup() was the last operation *)
(*                         to touch the connection                         *)
(*   lost                : a poll dropped the connection on a connectivity *)
(*                         error and no channel was opened since           *)
(***************************************************************************)
VARIABLES poller, started, nextMsg, handed, lastOp,
          pc, timeout, expiration_time, prefetch_size, result, raised

pollerVars == <<poller, started, nextMsg, handed, lastOp,
                pc, timeout, expiration_time, prefetch_size, result, raised>>

\* the state of an RPC send
VARIABLES sendPc, retry, sendTimeout, sendExpiration, retrier, now,
          attempt_number, publishes, waits, nacks, transients, late,
          sendRaised

sendVars == <<sendPc, retry, sendTimeout, sendExpiration, retrier, now,
              attempt_number, publishes, waits, nacks, transients, late,
              sendRaised>>

\* the state of the reply listener and of its callers
VARIABLES waiters, sink, completions, callPc, msg_id, callTimeout,
          callResult, published, replies, cleaned, lastPump

listenerVars == <<waiters, sink, completions, callPc, msg_id, callTimeout,
                  callResult, published, replies, cleaned, lastPump>>

\* the lock of a poller, the threads that call its public operations, and
\* the state the lock guards
\*   lock    : the thread that holds self._lock, or None
\*   lockPc  : where each thread is: "idle", "acquire" (at `with self._lock`),
\*             "held" (inside the with block) or "pumping" (inside it, in
\*             the try block of poll)
\*   lockOp  : the operation each thread is in
\*   actor   : the thread that took the last step
\*   guarded : _started, whether _channel is set, and len(_message_queue)
VARIABLES lock, lockPc, lockOp, actor, guarded

lockVars == <<lock, lockPc, lockOp, actor, guarded>>

\* the reply poller and the start(timeout) call on it
\*   replyPoller   : the RpcReplyPikaPoller: whether it holds a connection
\*                   and a channel, whether basic_qos was set,
\*                   _queues_to_consume (<<>> for None, else <<dict>>), the
\*                   queues it consumes, and whether its reply queue exists
\*                   on the broker
\*   replyStarted  : _started
\*   startPc       : "idle", "attempt" (in reconnect), "wait" (between two
\*                   attempts), "returned" or "raised", and "polled" once
\*                   poll was called after start ended
\*   startAttempt  : the number of the attempt, from 1
\*   startElapsed  : the time since the first attempt
\*   startTimeout  : the argument timeout
\*   replyAttempts : rpc_reply_retry_attempts
\*   startRaised   : the exception of the last failed attempt
VARIABLES replyPoller, replyStarted, startPc, startAttempt, startElapsed,
          startTimeout, replyAttempts, startRaised

replyVars == <<replyPoller, replyStarted, startPc, startAttempt, startElapsed,
               startTimeout, replyAttempts, startRaised>>

\* the state of a send_notification and of the notification binding
\*   notifyPc       : "idle", "attempt" (before a publish), "on_exception"
\*                    (the retrier asks on_exception about a failure that
\*                    needs the re-declaration), "wait" (between two
\*                    attempts) or "done"
\*   notifyRetry    : the retry count in effect
\*   notifyAttempt  : the number of the attempt, from 1
\*   notifyFailure  : the exception of the last failed publish
\*   notifyRaised   : the exception send_notification ended with
\*   redeclared     : what happened to the binding since the last publish:
\*                    "no", "declared", or the exception the declaration
\*                    raised
\*   bound          : the target's queue is bound to the exchange
\*   declared       : the last call of _declare_notification_queue_binding:
\*                    its timeout, what the pool answered, whether a
\*                    connection was acquired, whether the binding was
\*                    declared, and the exception it raised
VARIABLES notifyPc, notifyRetry, notifyAttempt, notifyFailure, notifyRaised,
          redeclared, bound, declared

notifyVars == <<notifyPc, notifyRetry, notifyAttempt, notifyFailure,
                notifyRaised, redeclared, bound, declared>>

\* PikaDriver.send as seen by its callers: casts and calls
\*   dsPc           : per caller "idle", "sending" (in msg.send), "replied"
\*                    (msg.send returned) or "done"
\*   wait_for_reply : the argument: "None", "False" or "True"
\*   reply_listener : whether the reply listener was passed to msg.send
\*   registered     : whether msg.send registered a reply waiter
\*   reply          : what msg.send returned: <<>> for None, else <<reply>>
\*   sendOutcome    : how send ended: returned a value or raised
VARIABLES dsPc, wait_for_reply, reply_listener, registered, reply,
          sendOutcome

driverVars == <<dsPc, wait_for_reply, reply_listener, registered, reply,
                sendOutcome>>

\* the messages of pika_message and what they do to the broker
\*   publishLog  : the publishes made so far, in their order
\*   poolUse     : the number of acquire() calls on each connection pool
\*   waiterLog   : the msg_ids register_reply_waiter was called with
\*   uuid4       : the number of msg_ids generated so far
\*   returned    : what the last send returned: <<>> for None, else <<value>>
\*   brokerLog   : the basic_ack / basic_nack calls made so far
\*   replyPc     : "idle", or "sending" while reply() is in the send of its
\*                 reply message
\*   replyTry    : the number of the attempt of that send, from 1
\*   outgoing    : the reply message being sent and the retrier it is sent
\*                 under (<<>> when none is)
\*   parsed      : the last RpcReplyPikaIncomingMessage (<<>> before any)
\*   rpc_reply_retry_attempts : the option of that name (None before the
\*                 engine is built)
\*   msgOps      : the number of operations started
\*   lastCall    : the last operation started and the kind of the message
\*                 it was called on
VARIABLES publishLog, poolUse, waiterLog, uuid4, returned, brokerLog,
          replyPc, replyTry, outgoing, parsed, rpc_reply_retry_attempts,
          msgOps, lastCall

msgVars == <<publishLog, poolUse, waiterLog, uuid4, returned, brokerLog,
             replyPc, replyTry, outgoing, parsed, rpc_reply_retry_attempts,
             msgOps, lastCall>>

\* a connection pool (pika_pool.QueuedPool) and the callers that lease its
\* connections with `with pool.acquire(timeout) as conn`
\*   pool_max_size, pool_max_overflow : the options of these names (None
\*                 before the pool is created)
\*   poolLive    : the connections created and not closed
\*   poolQueue   : the idle connections, in the order of their release
\*   poolAvail   : the connections that may still be created (_avail)
\*   leasePc     : per caller "out", "waiting" (in acquire, for a release)
\*                 or "in" (inside the with block)
\*   lease       : the connection each caller holds, or None
\*   leaseEnd    : how the last acquire or with block of each caller ended
VARIABLES pool_max_size, pool_max_overflow, poolLive, poolQueue, poolAvail,
          leasePc, lease, leaseEnd

poolVars == <<pool_max_size, pool_max_overflow, poolLive, poolQueue,
              poolAvail, leasePc, lease, leaseEnd>>

\* a notification poller, from listen_for_notifications to its first
\* reconnect
\*   npTargets   : targets_and_priorities, a list of (target, priority)
\*                 (<<>> before listen_for_notifications)
\*   npPool      : the pool argument: <<>> for None, else <<name>>
\*   npPc        : "none" (no poller yet), "started" or "consuming"
\*   npQueueName : the poller's _queue_name
\*   npDeclared  : the bindings declared on the broker
\*   npConsumers : the basic_consume calls made, in their order
VARIABLES npTargets, npPool, npPc, npQueueName, npDeclared, npConsumers

npVars == <<npTargets, npPool, npPc, npQueueName, npDeclared, npConsumers>>

\* the RPC service pollers made by PikaDriver.listen, in their order; each
\* is a record
\*   target            : the target it listens for
\*   pc                : "started" or, after its first reconnect,
\*                       "consuming"
\*   declared          : the bindings declared on the broker, each with the
\*                       ack mode of the loop pass that declared it
\*   queues_to_consume : the dictionary _declare_queue_binding returned, as
\*                       the list of its items in the order of their keys'
\*                       first assignment
\*   consumers         : the basic_consume calls made, in their order
VARIABLES listeners

rsVars == <<listeners>>

\* a notification server with one NotifyEndpoint and the queue it consumes
\*   nqPc       : "none" before notify_server, then "serving"
\*   show_stats : the endpoint's show_stats
\*   cache      : the endpoint's cache, a list of payloads
\*   count      : the endpoint's _count
\*   nqSent     : the notifications published so far (their ids are
\*                1..nqSent)
\*   nqQueue    : the messages ready in the broker's queue, [id, payload]
\*   nqUnacked  : the messages delivered to the consumer and not settled
\*                yet, with the endpoint's answer once it has given one
\*   nqLog      : for every message, how often it was delivered, requeued
\*                and acknowledged, how often the endpoint answered HANDLED,
\*                and the endpoint's answer to its first delivery
VARIABLES nqPc, show_stats, cache, count, nqSent, nqQueue, nqUnacked, nqLog

nqVars == <<nqPc, show_stats, cache, count, nqSent, nqQueue, nqUnacked, nqLog>>

\* a poller shared by several threads that call poll, with the history of
\* its messages
\*   cPoller    : the poller, as the record of the poller above
\*   cStarted   : _started
\*   cNextMsg   : the id of the next message the broker delivers
\*   cPc        : for every thread "idle" or, inside poll, "polling"
\*   cPrefetch  : for every thread inside poll its prefetch_size
\*   cReturned  : for every thread the ids of the messages its polls have
\*                returned, in their order
\*   cDiscarded : the messages a _cleanup has deleted from the buffer: the
\*                id of each and whether it needed an acknowledgement
VARIABLES cPoller, cStarted, cNextMsg, cPc, cPrefetch, cReturned, cDiscarded

cpVars == <<cPoller, cStarted, cNextMsg, cPc, cPrefetch, cReturned, cDiscarded>>

vars == <<pollerVars, sendVars, listenerVars, lockVars, replyVars, notifyVars, driverVars, msgVars, poolVars, npVars, rsVars, nqVars, cpVars>>

\* what the steps of each part leave alone
notPollerVars == <<sendVars, listenerVars, lockVars, replyVars, notifyVars, driverVars, msgVars, poolVars, npVars, rsVars, nqVars, cpVars>>
notSendVars == <<pollerVars, listenerVars, lockVars, replyVars, notifyVars, driverVars, msgVars, poolVars, npVars, rsVars, nqVars, cpVars>>
notListenerVars == <<pollerVars, sendVars, lockVars, replyVars, notifyVars, driverVars, msgVars, poolVars, npVars, rsVars, nqVars, cpVars>>
notLockVars == <<pollerVars, sendVars, listenerVars, replyVars, notifyVars, driverVars, msgVars, poolVars, npVars, rsVars, nqVars, cpVars>>
notReplyVars == <<pollerVars, sendVars, listenerVars, lockVars, notifyVars, driverVars, msgVars, poolVars, npVars, rsVars, nqVars, cpVars>>
notNotifyVars == <<pollerVars, sendVars, listenerVars, lockVars, replyVars, driverVars, msgVars, poolVars, npVars, rsVars, nqVars, cpVars>>
notDriverVars == <<pollerVars, sendVars, listenerVars, lockVars, replyVars, notifyVars, msgVars, poolVars, npVars, rsVars, nqVars, cpVars>>
notMsgVars == <<pollerVars, sendVars, listenerVars, lockVars, replyVars, notifyVars, driverVars, poolVars, npVars, rsVars, nqVars, cpVars>>
notPoolVars == <<pollerVars, sendVars, listenerVars, lockVars, replyVars, notifyVars, driverVars, msgVars, npVars, rsVars, nqVars, cpVars>>
notNpVars == <<pollerVars, sendVars, listenerVars, lockVars, replyVars, notifyVars, driverVars, msgVars, poolVars, rsVars, nqVars, cpVars>>
notRsVars == <<pollerVars, sendVars, listenerVars, lockVars, replyVars, notifyVars, driverVars, msgVars, poolVars, npVars, nqVars, cpVars>>
notNqVars == <<pollerVars, sendVars, listenerVars, lockVars, replyVars, notifyVars, driverVars, msgVars, poolVars, npVars, rsVars, cpVars>>
notCpVars == <<pollerVars, sendVars, listenerVars, lockVars, replyVars, notifyVars, driverVars, msgVars, poolVars, npVars, rsVars, nqVars>>

\* get_rpc_queue_name(topic, server, no_ack): <topic>[.<server>][.no_ack]
RpcQueueName(server, no_ack) ==
    <<"topic">> \o (IF server THEN <<"server">> ELSE <<>>)
                \o (IF no_ack THEN <<"no_ack">> ELSE <<>>)

\* RpcServicePikaPoller._declare_queue_binding: declared_queue_name -> no_ack
DeclareQueueBinding ==
    { [queue |-> RpcQueueName(server, no_ack), no_ack |-> no_ack] :
          server \in BOOLEAN, no_ack \in BOOLEAN }

\* PikaPoller.__init__
InitPoller ==
    [connection |-> None, channel |-> None, queues_to_consume |-> <<>>,
     message_queue |-> <<>>, made |-> 0, live |-> {}, qos |-> FALSE,
     consumers |-> {}, declared |-> FALSE, opened_by |-> "none",
     lost |-> FALSE]

\* message.need_ack(): the message holds the channel it has to be acked on
NeedAck(m) == m.channel # None

RECURSIVE SelectSeqNoAck(_)
\* the loop of _cleanup: the messages that need no ack, in their order
SelectSeqNoAck(q) ==
    IF q = <<>> THEN <<>>
    ELSE IF NeedAck(Head(q)) THEN SelectSeqNoAck(Tail(q))
         ELSE <<Head(q)>> \o SelectSeqNoAck(Tail(q))

\* a _cleanup that leaves the buffer as it is
CleanupKeepsBuffer(p) ==
    [p EXCEPT !.channel = None,
              !.connection = None,
              !.live = p.live \ {p.connection},
              !.qos = FALSE,
              !.consumers = {},
              !.opened_by = "none"]

\* PikaPoller._cleanup: errors of close() are swallowed
Cleanup(p) ==
    [p EXCEPT !.channel = None,
              !.connection = None,
              !.live = p.live \ {p.connection},
              !.qos = FALSE,
              !.consumers = {},
              !.opened_by = "none",
              !.message_queue = SelectSeqNoAck(p.message_queue)]

\* six.iteritems(d): the items of a dictionary in its iteration order,
\* which is taken to be no-ack queues first, then by the length of the name
ItemBefore(a, b) ==
    \/ a.no_ack /\ ~b.no_ack
    \/ a.no_ack = b.no_ack /\ Len(a.queue) < Len(b.queue)

\* the first n items of dictionary d in its iteration order
FirstItems(d, n) ==
    { a \in d : Cardinality({ b \in d : ItemBefore(b, a) }) < n }

\* a _reconnect that declares the queues whether or not they are cached
DeclareAlways(p) ==
    [p EXCEPT !.queues_to_consume = <<DeclareQueueBinding>>,
              !.declared = TRUE]

\* if self._queues_to_consume is None:
\*     self._queues_to_consume = self._declare_queue_binding()
DeclareIfNone(p) ==
    IF p.queues_to_consume = <<>>
    THEN [p EXCEPT !.queues_to_consume = <<DeclareQueueBinding>>,
                   !.declared = TRUE]
    ELSE p

\* a failing basic_consume that leaves the cached queue-set as it is
StartConsumingKeepsCache(p, dict, done) ==
    [p EXCEPT !.consumers = FirstItems(dict, done)]

\* the loop over _start_consuming in which the basic_consume after the
\* first done queues of dict raises:
\*     except Exception: self._queues_to_consume = None; raise
StartConsumingFails(p, dict, done) ==
    [p EXCEPT !.consumers = FirstItems(dict, done),
              !.queues_to_consume = <<>>]

(***************************************************************************)
(* PikaPoller._reconnect.  at is the step that fails ("none": no step),    *)
(* err its error, done the number of queues consumed before a failing      *)
(* basic_consume.  The result is the poller afterwards and the error       *)
(* raised.                                                                 *)
(***************************************************************************)
ReconnectSteps == {"create_connection", "channel", "basic_qos", "declare",
                   "basic_consume"}

Reconnect(p, at, err, done) ==
    IF at = "create_connection" THEN [p |-> p, err |-> err]
    ELSE
    LET c  == p.made + 1
        p1 == [p EXCEPT !.connection = c, !.made = c,
                        !.live = p.live \cup {c}, !.opened_by = "none"]
    IN IF at = "channel" THEN [p |-> p1, err |-> err]
    ELSE
    LET p2 == [p1 EXCEPT !.channel = c, !.qos = FALSE, !.consumers = {},
                         !.declared = FALSE, !.lost = FALSE]
    IN IF at = "basic_qos" THEN [p |-> p2, err |-> err]
    ELSE
    LET p3 == [p2 EXCEPT !.qos = TRUE]
        declare == p3.queues_to_consume = <<>>
    IN IF at = "declare" /\ declare
       THEN [p |-> [p3 EXCEPT !.declared = TRUE], err |-> err]
    ELSE
    LET p4 == DeclareIfNone(p3)
        dict == p4.queues_to_consume[1]
    IN IF at = "basic_consume" /\ dict # {}
       THEN [p |-> StartConsumingFails(p4, dict, done), err |-> err]
       ELSE [p |-> [p4 EXCEPT !.consumers = dict], err |-> NoError]

\* _reconnect as called by the operation by ("poll" or "reconnect")
ReconnectBy(by, p, at, err, done) ==
    LET r == Reconnect(p, at, err, done)
    IN [p |-> IF r.p.channel # None THEN [r.p EXCEPT !.opened_by = by]
              ELSE r.p,
        err |-> r.err]

\* the errors a step of _reconnect can fail with
StepErrors(at) ==
    IF at = "create_connection" THEN {"ConnectionException"} ELSE PikaErrors

\* a callback that puts the message at the head of the buffer
OnMessageAtHead(p, id, no_ack) ==
    [p EXCEPT !.message_queue =
        <<[id |-> id, channel |-> IF no_ack THEN None ELSE p.channel]>>
        \o p.message_queue]

\* _on_message_no_ack_callback / _on_message_with_ack_callback
OnMessage(p, id, no_ack) ==
    [p EXCEPT !.message_queue =
        Append(p.message_queue,
               [id |-> id, channel |-> IF no_ack THEN None ELSE p.channel])]

\* the steps of _reconnect that can fail on poller p
StepPossible(p, at) ==
    /\ at \in ReconnectSteps
    /\ at = "declare" => p.queues_to_consume = <<>>

RECURSIVE Dispatch(_, _, _)
\* connection.process_data_events: pika calls the consumer callback of each
\* delivery (dl[i] is the ack mode of the consumer it is for, which
\* _start_consuming bound the callback by), giving them ids from id on
Dispatch(p, dl, id) ==
    IF dl = <<>> THEN p
    ELSE Dispatch(OnMessage(p, id, Head(dl)), Tail(dl), id + 1)

\* the deliveries one slice can dispatch: the broker delivers only to the
\* consumers of the channel
Deliveries(p) ==
    UNION { [1..n -> { c.no_ack : c \in p.consumers }] : n \in 0..MaxBatch }

(***************************************************************************)
(* poll.  A thread in poll is at "polling" between two iterations of the   *)
(* loop; one iteration runs under the lock and is one step.  The local     *)
(* expiration_time is kept as the time left until it (None when unset),    *)
(* which Tick counts down.                                                 *)
(***************************************************************************)
PollerInit ==
    /\ poller = InitPoller
    /\ started = FALSE
    /\ nextMsg = 1
    /\ handed = 0
    /\ lastOp = [op |-> "none", channel |-> None, delivery_tag |-> None]
    /\ pc = [t \in Threads |-> "idle"]
    /\ timeout = [t \in Threads |-> None]
    /\ expiration_time = [t \in Threads |-> None]
    /\ prefetch_size = [t \in Threads |-> 1]
    /\ result = [t \in Threads |-> <<>>]
    /\ raised = [t \in Threads |-> NoError]

\* expiration_time = time.time() + timeout if timeout else None
ExpirationTime(to) == IF to # None /\ to # 0 THEN to ELSE None

\* poll(timeout, prefetch_size) is called
PollCall(t, to, n) ==
    /\ pc[t] = "idle"
    /\ pc' = [pc EXCEPT ![t] = "polling"]
    /\ timeout' = [timeout EXCEPT ![t] = to]
    /\ expiration_time' = [expiration_time EXCEPT ![t] = ExpirationTime(to)]
    /\ prefetch_size' = [prefetch_size EXCEPT ![t] = n]
    /\ result' = [result EXCEPT ![t] = <<>>]
    /\ raised' = [raised EXCEPT ![t] = NoError]
    /\ UNCHANGED <<poller, started, nextMsg, handed, lastOp>>
    /\ UNCHANGED notPollerVars

\* timeout = expiration_time - time.time() fails when expiration_time is None
TimeoutTypeError(t) == timeout[t] # None /\ expiration_time[t] = None

\* if timeout is not None: timeout = expiration_time - time.time()
Remaining(t) == IF timeout[t] # None THEN expiration_time[t] ELSE None

\* the loop condition without its deadline test
PollConditionNoDeadline(t) ==
    /\ Len(poller.message_queue) < prefetch_size[t]
    /\ started

\* len(message_queue) < prefetch_size and started and
\* (timeout is None or timeout > 0)
PollCondition(t) ==
    /\ Len(poller.message_queue) < prefetch_size[t]
    /\ started
    /\ (Remaining(t) = None \/ Remaining(t) > 0)

\* poll is left: its locals are gone
PollExit(t) ==
    /\ pc' = [pc EXCEPT ![t] = "idle"]
    /\ timeout' = [timeout EXCEPT ![t] = None]
    /\ expiration_time' = [expiration_time EXCEPT ![t] = None]
    /\ prefetch_size' = [prefetch_size EXCEPT ![t] = 1]

PollRaise(t, p, err) ==
    /\ poller' = p
    /\ PollExit(t)
    /\ raised' = [raised EXCEPT ![t] = err]

\* an iteration that fails at the recomputation of timeout
PollTypeError(t) ==
    /\ pc[t] = "polling"
    /\ TimeoutTypeError(t)
    /\ PollRaise(t, poller, "TypeError")
    /\ UNCHANGED <<started, nextMsg, handed, lastOp, result>>
    /\ UNCHANGED notPollerVars

\* an except clause that raises without _cleanup
PollExceptNoCleanup(p, err) ==
    IF IsConnectivityError(err) THEN [p EXCEPT !.lost = TRUE] ELSE p

\* the except clause of poll: _cleanup on a connectivity error, and raise
PollExcept(p, err) ==
    IF IsConnectivityError(err) THEN [Cleanup(p) EXCEPT !.lost = TRUE] ELSE p

\* an iteration that finds no channel and whose _reconnect fails
PollReconnectFails(t, at, err, done) ==
    /\ pc[t] = "polling"
    /\ ~TimeoutTypeError(t)
    /\ PollCondition(t)
    /\ poller.channel = None
    /\ StepPossible(poller, at)
    /\ at # "create_connection" => poller.made < MaxConns
    /\ LET r == ReconnectBy("poll", poller, at, err, done)
       IN /\ r.err # NoError
          /\ PollRaise(t, PollExcept(r.p, r.err), r.err)
    /\ UNCHANGED <<started, nextMsg, handed, lastOp, result>>
    /\ UNCHANGED notPollerVars

\* an iteration that reconnects if there is no channel and pumps broker I/O
\* for one slice: the deliveries dl are dispatched, then err is raised
PollPump(t, dl, err) ==
    /\ pc[t] = "polling"
    /\ ~TimeoutTypeError(t)
    /\ PollCondition(t)
    /\ poller.channel = None => poller.made < MaxConns
    /\ LET r == IF poller.channel = None
                THEN ReconnectBy("poll", poller, "none", NoError, 0)
                ELSE [p |-> poller, err |-> NoError]
       IN /\ dl \in Deliveries(r.p)
          /\ nextMsg + Len(dl) <= MaxMsgs + 1
          /\ nextMsg' = nextMsg + Len(dl)
          /\ LET p == Dispatch(r.p, dl, nextMsg)
             IN IF err = NoError
                THEN /\ poller' = p
                     /\ UNCHANGED <<pc, raised, timeout, expiration_time,
                                    prefetch_size>>
                ELSE PollRaise(t, PollExcept(p, err), err)
    /\ UNCHANGED <<started, handed, lastOp, result>>
    /\ UNCHANGED notPollerVars

\* result = message_queue[:prefetch_size]
\* a slice that takes the whole buffer
SliceAll(q, n) == q

Slice(q, n) == SubSeq(q, 1, IF Len(q) < n THEN Len(q) ELSE n)

\* a slip in the slice bound: one message fewer is deleted
DelSliceShort(q, n) ==
    IF q = <<>> THEN q
    ELSE SubSeq(q, IF Len(q) < n THEN Len(q) ELSE n, Len(q))

\* del message_queue[:prefetch_size]
DelSlice(q, n) == SubSeq(q, (IF Len(q) < n THEN Len(q) ELSE n) + 1, Len(q))

\* the id of the last message handed to the application, after res was
LastId(last, res) == IF res = <<>> THEN last ELSE res[Len(res)].id

\* the else branch of an iteration: poll returns the buffered messages
PollReturn(t) ==
    /\ pc[t] = "polling"
    /\ ~TimeoutTypeError(t)
    /\ ~PollCondition(t)
    /\ result' = [result EXCEPT
                    ![t] = Slice(poller.message_queue, prefetch_size[t])]
    /\ poller' = [poller EXCEPT !.message_queue =
                    DelSlice(poller.message_queue, prefetch_size[t])]
    /\ handed' = LastId(handed, result'[t])
    /\ PollExit(t)
    /\ UNCHANGED <<started, nextMsg, lastOp, raised>>
    /\ UNCHANGED notPollerVars

\* time passes: the time left of every poll with a deadline shrinks
Tick ==
    /\ \E t \in Threads : pc[t] = "polling" /\ expiration_time[t] > 0
    /\ expiration_time' =
          [t \in Threads |-> IF expiration_time[t] > 0
                             THEN expiration_time[t] - 1
                             ELSE expiration_time[t]]
    /\ UNCHANGED <<poller, started, nextMsg, handed, lastOp, pc, timeout,
                   prefetch_size, result, raised>>
    /\ UNCHANGED notPollerVars

\* PikaPoller.start
Start ==
    /\ started' = TRUE
    /\ UNCHANGED <<poller, nextMsg, handed, lastOp, pc, timeout,
                   expiration_time, prefetch_size, result, raised>>
    /\ UNCHANGED notPollerVars

\* PikaPoller.stop
Stop ==
    /\ started' = (IF ~started THEN started ELSE FALSE)
    /\ UNCHANGED <<poller, nextMsg, handed, lastOp, pc, timeout,
                   expiration_time, prefetch_size, result, raised>>
    /\ UNCHANGED notPollerVars

\* a reconnect() that lets the error of _reconnect pass without _cleanup
ReconnectNoCleanupOnError(p, at, err, done) ==
    ReconnectBy("reconnect", Cleanup(p), at, err, done).p

\* PikaPoller.reconnect: _cleanup, _reconnect, and _cleanup on any error
PublicReconnect(p, at, err, done) ==
    LET r == ReconnectBy("reconnect", Cleanup(p), at, err, done)
    IN IF r.err # NoError THEN Cleanup(r.p) ELSE r.p

\* reconnect() is called; at = "none": no step of it fails
ReconnectCall(at, err, done) ==
    /\ at = "none" \/ StepPossible(Cleanup(poller), at)
    /\ at # "create_connection" => poller.made < MaxConns
    /\ poller' = PublicReconnect(poller, at, err, done)
    /\ UNCHANGED <<started, nextMsg, handed, lastOp, pc, timeout,
                   expiration_time, prefetch_size, result, raised>>
    /\ UNCHANGED notPollerVars

\* PikaPoller.cleanup
CleanupCall ==
    /\ poller' = [Cleanup(poller) EXCEPT !.opened_by = "cleaned"]
    /\ UNCHANGED <<started, nextMsg, handed, lastOp, pc, timeout,
                   expiration_time, prefetch_size, result, raised>>
    /\ UNCHANGED notPollerVars

\* PikaIncomingMessage.acknowledge / requeue: the last broker operation
\* after op was asked for message m: it is issued on the channel the message
\* holds, and none is issued for a message consumed in no-ack mode (which
\* holds no channel)
BrokerOp(last, m, op) ==
    IF m.channel # None
    THEN [op |-> op, channel |-> m.channel, delivery_tag |-> m.id]
    ELSE last

\* the application acknowledges (basic_ack) or requeues (basic_nack) the
\* i-th message of the list its last poll returned
Settle(t, i, op) ==
    /\ pc[t] = "idle"
    /\ i \in 1..Len(result[t])
    /\ lastOp' = BrokerOp(lastOp, result[t][i], op)
    /\ result' = [result EXCEPT ![t] =
                     SubSeq(result[t], 1, i - 1)
                     \o SubSeq(result[t], i + 1, Len(result[t]))]
    /\ UNCHANGED <<poller, started, nextMsg, handed, pc, timeout,
                   expiration_time, prefetch_size, raised>>
    /\ UNCHANGED notPollerVars

\* the numbers of queues a failing basic_consume loop can have got through
ConsumedBefore == 0..(Cardinality(DeclareQueueBinding) - 1)

NextPoller ==
    \/ \E t \in Threads, to \in Timeouts,
          n \in PrefetchSizes : PollCall(t, to, n)
    \/ \E t \in Threads : PollTypeError(t)
    \/ \E t \in Threads, at \in ReconnectSteps, err \in PikaErrors
                                                  \cup {"ConnectionException"},
          done \in ConsumedBefore :
          /\ err \in StepErrors(at)
          /\ at # "basic_consume" => done = 0
          /\ PollReconnectFails(t, at, err, done)
    \/ \E t \in Threads, dl \in Deliveries([consumers |-> DeclareQueueBinding]),
          err \in PikaErrors \cup {NoError} : PollPump(t, dl, err)
    \/ \E t \in Threads : PollReturn(t)
    \/ Tick
    \/ Start
    \/ Stop
    \/ \E at \in ReconnectSteps \cup {"none"},
          err \in PikaErrors \cup {"ConnectionException", NoError},
          done \in ConsumedBefore :
          /\ IF at = "none" THEN err = NoError ELSE err \in StepErrors(at)
          /\ at # "basic_consume" => done = 0
          /\ ReconnectCall(at, err, done)
    \/ CleanupCall
    \/ \E t \in Threads, i \in 1..MaxMsgs, op \in {"basic_ack", "basic_nack"} :
          Settle(t, i, op)

(***************************************************************************)
(* PikaDriver.send: the retry policy of an RPC send.                       *)
(*                                                                         *)
(* The driver computes the deadline and builds the retrier; the outgoing   *)
(* message applies the retrier to its publish attempts.  Time is counted   *)
(* in units of rpc_retry_delay from the moment of the call (now = 0), so   *)
(* the deadline time.time() + timeout is the timeout itself.  A retry of   *)
(* None stands for default_rpc_retry_attempts, which is one of the values  *)
(* of RetryArgs.                                                           *)
(***************************************************************************)
\* retry: -1 retries without a bound on attempts, 0 does not retry
RetryArgs == -1..MaxRetry

SendTimeouts == {None} \cup (0..MaxSendTimeout)

\* the retry loop of a send with neither bound nor deadline never ends
MaxAttempts == MaxRetry + 1

\* time stops being counted once every deadline has passed
Horizon == MaxSendTimeout + 1

\* rpc_retry_delay, the unit of time of a send
RpcRetryDelay == 1

SendErrors == {"ConnectionException", "MessageDeliveryFailure",
               "MessageRejectedException", "RoutingException",
               "MessagingTimeout"}

\* isinstance(ex, cls): MessageRejectedException is a MessageDeliveryFailure
IsInstance(ex, cls) ==
    \/ ex = cls
    \/ ex = "MessageRejectedException" /\ cls = "MessageDeliveryFailure"

\* expiration_time = None if timeout is None else time.time() + timeout
NoExpirationTime(to) == None

SendExpirationTime(to) == IF to = None THEN None ELSE now + to

OnExceptionAlways(ex) == TRUE

OnException(ex) ==
    IF \/ IsInstance(ex, "ConnectionException")
       \/ IsInstance(ex, "MessageDeliveryFailure")
    THEN TRUE
    ELSE FALSE

NoRetrier == <<>>

RetrierOneMore(r) ==
    IF r = 0 THEN NoRetrier
    ELSE <<[stop_max_attempt_number |-> IF r = -1 THEN None ELSE r + 1,
            wait_fixed |-> RpcRetryDelay]>>

\* None if retry == 0 else retrying.retry(stop_max_attempt_number=...,
\*     retry_on_exception=on_exception, wait_fixed=rpc_retry_delay * 1000)
Retrier(r) ==
    IF r = 0 THEN NoRetrier
    ELSE <<[stop_max_attempt_number |-> IF r = -1 THEN None ELSE r,
            wait_fixed |-> RpcRetryDelay]>>

\* retrying: stop after stop_max_attempt_number attempts, never when None
ShouldStop(rt, n) ==
    /\ rt[1].stop_max_attempt_number # None
    /\ n >= rt[1].stop_max_attempt_number

\* whether the failure ex of attempt n ends the send
EndsSend(rt, ex, n) ==
    \/ rt = NoRetrier
    \/ ~OnException(ex)
    \/ ShouldStop(rt, n)

After(t, d) == IF t + d > Horizon THEN Horizon ELSE t + d

Expired == sendExpiration # None /\ sendExpiration - now <= 0

SendInit ==
    /\ sendPc = "idle"
    /\ retry = 0
    /\ sendTimeout = None
    /\ sendExpiration = None
    /\ retrier = NoRetrier
    /\ now = 0
    /\ attempt_number = 0
    /\ publishes = 0
    /\ waits = 0
    /\ nacks = 0
    /\ transients = 0
    /\ late = FALSE
    /\ sendRaised = NoError

\* send(target, ctxt, message, timeout=to, retry=r) up to the first attempt
SendCall(r, to) ==
    /\ sendPc = "idle"
    /\ sendPc' = "attempt"
    /\ retry' = r
    /\ sendTimeout' = to
    /\ sendExpiration' = SendExpirationTime(to)
    /\ retrier' = Retrier(r)
    /\ attempt_number' = 1
    /\ UNCHANGED <<now, publishes, waits, nacks, transients, late, sendRaised>>
    /\ UNCHANGED notSendVars

\* how an attempt that ended with ex (NoError: published and confirmed)
\* goes on: the send returns, raises ex, or waits for the next attempt
AttemptEnds(ex) ==
    /\ sendRaised' = ex
    /\ sendPc' = IF ex = NoError \/ EndsSend(retrier, ex, attempt_number)
                 THEN "done"
                 ELSE "wait"
    /\ UNCHANGED <<retry, sendTimeout, sendExpiration, retrier, now,
                   attempt_number, waits>>

\* an attempt made when the deadline has passed fails before publishing
AttemptExpired ==
    /\ sendPc = "attempt"
    /\ Expired
    /\ AttemptEnds("MessagingTimeout")
    /\ UNCHANGED <<publishes, nacks, transients, late>>
    /\ UNCHANGED notSendVars

\* an attempt that publishes; ex is what the broker or the pool answers
AttemptPublish(ex) ==
    /\ sendPc = "attempt"
    /\ ~Expired
    /\ publishes' = publishes + 1
    /\ nacks' = IF ex = "MessageRejectedException" THEN nacks + 1 ELSE nacks
    /\ transients' = IF ex # NoError /\ OnException(ex)
                     THEN transients + 1
                     ELSE transients
    /\ late' = (late \/ (sendTimeout # None /\ now >= sendTimeout))
    /\ AttemptEnds(ex)
    /\ UNCHANGED notSendVars

\* the fixed wait between two attempts
RetryWait ==
    /\ sendPc = "wait"
    /\ attempt_number < MaxAttempts
    /\ now' = After(now, retrier[1].wait_fixed)
    /\ waits' = waits + 1
    /\ attempt_number' = attempt_number + 1
    /\ sendPc' = "attempt"
    /\ UNCHANGED <<retry, sendTimeout, sendExpiration, retrier, publishes,
                   nacks, transients, late, sendRaised>>
    /\ UNCHANGED notSendVars

\* time passes while an attempt is made
SendTick ==
    /\ sendPc = "attempt"
    /\ now < Horizon
    /\ now' = now + 1
    /\ UNCHANGED <<sendPc, retry, sendTimeout, sendExpiration, retrier,
                   attempt_number, publishes, waits, nacks, transients, late,
                   sendRaised>>
    /\ UNCHANGED notSendVars

NextSend ==
    \/ \E r \in RetryArgs, to \in SendTimeouts : SendCall(r, to)
    \/ AttemptExpired
    \/ \E ex \in SendErrors \cup {NoError} : AttemptPublish(ex)
    \/ RetryWait
    \/ SendTick

(***************************************************************************)
(* The reply listener and the RPC calls that wait on it.                   *)
(*                                                                         *)
(* The listener maps the msg_id of each outstanding call to its waiter     *)
(* (the completion sink the caller blocks on).  A call registers its       *)
(* waiter, publishes the request, waits for the waiter with its deadline   *)
(* and unregisters the waiter when it leaves.  The listener's pump takes   *)
(* the replies off the reply queue one by one.  The broker may deliver a   *)
(* reply again, any number of times.  A call's deadline, if it has one, is *)
(* reached at some moment of its wait.                                     *)
(***************************************************************************)
\* every caller makes one call
Callers == 1..MaxCalls

\* the msg_id a call generates: unique to the call
Uuid(c) == c

MsgIds == {Uuid(c) : c \in Callers}

\* a call is made without timeout or with one
CallTimeouts == {None, 1}

ListenerInit ==
    /\ waiters = {}
    /\ sink = [id \in MsgIds |-> "none"]
    /\ completions = [id \in MsgIds |-> 0]
    /\ callPc = [c \in Callers |-> "idle"]
    /\ msg_id = [c \in Callers |-> None]
    /\ callTimeout = [c \in Callers |-> None]
    /\ callResult = [c \in Callers |-> "none"]
    /\ published = {}
    /\ replies = {}
    /\ cleaned = FALSE
    /\ lastPump = "none"

KeepReplyWaiter(w, id) == w

\* the waiter map without the entry of msg_id, if it has one
UnregisterReplyWaiter(w, id) == w \ {id}

\* the call generates its msg_id and registers its waiter: a new pending
\* sink stored under msg_id
CallRegister(c, to) ==
    /\ callPc[c] = "idle"
    /\ ~cleaned
    /\ msg_id' = [msg_id EXCEPT ![c] = Uuid(c)]
    /\ callTimeout' = [callTimeout EXCEPT ![c] = to]
    /\ waiters' = waiters \cup {Uuid(c)}
    /\ sink' = [sink EXCEPT ![Uuid(c)] = "pending"]
    /\ callPc' = [callPc EXCEPT ![c] = "registered"]
    /\ UNCHANGED <<completions, callResult, published, replies, cleaned,
                   lastPump>>
    /\ UNCHANGED notListenerVars

\* the request was published: the call blocks on its waiter
CallPublished(c) ==
    /\ callPc[c] = "registered"
    /\ callPc' = [callPc EXCEPT ![c] = "waiting"]
    /\ published' = published \cup {msg_id[c]}
    /\ UNCHANGED <<waiters, sink, completions, msg_id, callTimeout,
                   callResult, replies, cleaned, lastPump>>
    /\ UNCHANGED notListenerVars

\* the send of the request raised: the call leaves with the failure
CallSendFails(c) ==
    /\ callPc[c] = "registered"
    /\ callPc' = [callPc EXCEPT ![c] = "done"]
    /\ callResult' = [callResult EXCEPT ![c] = "send_failure"]
    /\ waiters' = UnregisterReplyWaiter(waiters, msg_id[c])
    /\ UNCHANGED <<sink, completions, msg_id, callTimeout, published,
                   replies, cleaned, lastPump>>
    /\ UNCHANGED notListenerVars

\* the server's reply to a published request reaches the reply queue;
\* the broker may deliver it again
ReplyArrives(id) ==
    /\ id \in published
    /\ id \notin replies
    /\ replies' = replies \cup {id}
    /\ UNCHANGED <<waiters, sink, completions, callPc, msg_id, callTimeout,
                   callResult, published, cleaned, lastPump>>
    /\ UNCHANGED notListenerVars

FulfilKeepsEntry(w, id) == w

\* the pump removes the entry of the waiter it fulfils
FulfilRemovesEntry(w, id) == w \ {id}

\* the pump takes one reply: it fulfils the waiter of its correlation_id
\* and removes the entry, or discards the reply when there is no entry
Pump(id) ==
    /\ ~cleaned
    /\ id \in replies
    /\ replies' = replies \ {id}
    /\ IF id \in waiters
       THEN /\ sink' = [sink EXCEPT ![id] = "result"]
            /\ completions' = [completions EXCEPT ![id] = @ + 1]
            /\ waiters' = FulfilRemovesEntry(waiters, id)
            /\ lastPump' = "fulfilled"
       ELSE /\ lastPump' = "discarded"
            /\ UNCHANGED <<waiters, sink, completions>>
    /\ UNCHANGED <<callPc, msg_id, callTimeout, callResult, published,
                   cleaned>>
    /\ UNCHANGED notListenerVars

\* the wait ends with the waiter fulfilled, or failed by cleanup
CallReturns(c) ==
    /\ callPc[c] = "waiting"
    /\ sink[msg_id[c]] \in {"result", "failed"}
    /\ callPc' = [callPc EXCEPT ![c] = "done"]
    /\ callResult' = [callResult EXCEPT ![c] =
                         IF sink[msg_id[c]] = "result" THEN "reply"
                         ELSE "MessagingTimeout"]
    /\ waiters' = UnregisterReplyWaiter(waiters, msg_id[c])
    /\ UNCHANGED <<sink, completions, msg_id, callTimeout, published,
                   replies, cleaned, lastPump>>
    /\ UNCHANGED notListenerVars

\* the wait ends at the deadline: the waiter is removed as the call raises
CallTimesOut(c) ==
    /\ callPc[c] = "waiting"
    /\ sink[msg_id[c]] = "pending"
    /\ callTimeout[c] # None
    /\ callPc' = [callPc EXCEPT ![c] = "done"]
    /\ callResult' = [callResult EXCEPT ![c] = "MessagingTimeout"]
    /\ sink' = [sink EXCEPT ![msg_id[c]] = "timeout"]
    /\ completions' = [completions EXCEPT ![msg_id[c]] = @ + 1]
    /\ waiters' = UnregisterReplyWaiter(waiters, msg_id[c])
    /\ UNCHANGED <<msg_id, callTimeout, published, replies, cleaned,
                   lastPump>>
    /\ UNCHANGED notListenerVars

\* PikaDriver.cleanup: the listener stops its pump and fails every
\* outstanding waiter with MessagingTimeout
DriverCleanup ==
    /\ ~cleaned
    /\ cleaned' = TRUE
    /\ sink' = [id \in MsgIds |-> IF id \in waiters THEN "failed" ELSE sink[id]]
    /\ completions' = [id \in MsgIds |->
                          IF id \in waiters THEN completions[id] + 1
                          ELSE completions[id]]
    /\ waiters' = {}
    /\ UNCHANGED <<callPc, msg_id, callTimeout, callResult, published,
                   replies, lastPump>>
    /\ UNCHANGED notListenerVars

NextListener ==
    \/ \E c \in Callers, to \in CallTimeouts : CallRegister(c, to)
    \/ \E c \in Callers : CallPublished(c)
    \/ \E c \in Callers : CallSendFails(c)
    \/ \E id \in MsgIds : ReplyArrives(id)
    \/ \E id \in MsgIds : Pump(id)
    \/ \E c \in Callers : CallReturns(c)
    \/ \E c \in Callers : CallTimesOut(c)
    \/ DriverCleanup

(***************************************************************************)
(* The specifications: each one runs one part of the driver, whose actions *)
(* leave the state of the other parts alone.                               *)
(***************************************************************************)
(***************************************************************************)
(* The locking discipline of PikaPoller.                                   *)
(*                                                                         *)
(* Each public operation is followed through its `with self._lock:` block: *)
(* a thread arrives at the block, acquires the lock when it is free, runs  *)
(* the block and releases the lock when it leaves it.  poll does this once *)
(* per iteration of its loop.  The poller's state is kept as far as the    *)
(* lock is concerned: the started flag, whether a channel is open, and the *)
(* number of buffered messages.  poll is called with timeout None and      *)
(* prefetch_size 1.                                                        *)
(***************************************************************************)
LockThreads == 1..MaxThreads

\* the operations that take the lock
LockedOps == {"poll", "stop", "reconnect", "cleanup"}

LockInit ==
    /\ lock = None
    /\ lockPc = [th \in LockThreads |-> "idle"]
    /\ lockOp = [th \in LockThreads |-> "none"]
    /\ actor = None
    /\ guarded = [started |-> FALSE, channel |-> FALSE, buffered |-> 0]

\* a thread calls poll, stop, reconnect or cleanup and arrives at the lock
LockedCall(th, o) ==
    /\ lockPc[th] = "idle"
    /\ lockPc' = [lockPc EXCEPT ![th] = "acquire"]
    /\ lockOp' = [lockOp EXCEPT ![th] = o]
    /\ actor' = th
    /\ UNCHANGED <<lock, guarded>>
    /\ UNCHANGED notLockVars

\* start(): self._started = True, with no lock taken
StartCall(th) ==
    /\ lockPc[th] = "idle"
    /\ guarded' = [guarded EXCEPT !.started = TRUE]
    /\ actor' = th
    /\ UNCHANGED <<lock, lockPc, lockOp>>
    /\ UNCHANGED notLockVars

\* with self._lock: the lock is free and the thread takes it
Acquire(th) ==
    /\ lockPc[th] = "acquire"
    /\ lock = None
    /\ lock' = th
    /\ lockPc' = [lockPc EXCEPT ![th] = "held"]
    /\ actor' = th
    /\ UNCHANGED <<lockOp, guarded>>
    /\ UNCHANGED notLockVars

\* the thread is inside the with block of operation o
Inside(th, o) == lockPc[th] = "held" /\ lock = th /\ lockOp[th] = o

\* the with block is left by a return or a raise: the operation is over
LeaveOperation(th) ==
    /\ lock' = None
    /\ lockPc' = [lockPc EXCEPT ![th] = "idle"]
    /\ lockOp' = [lockOp EXCEPT ![th] = "none"]
    /\ actor' = th

\* a poll that kept the lock from one iteration to the next
SliceKeepsLock(th) ==
    /\ lockPc' = [lockPc EXCEPT ![th] = "held"]
    /\ UNCHANGED <<lock, lockOp>>
    /\ actor' = th

\* the with block of a poll iteration is left and the loop goes round: the
\* lock is released and the thread arrives at the with statement again
SliceReleasesLock(th) ==
    /\ lock' = None
    /\ lockPc' = [lockPc EXCEPT ![th] = "acquire"]
    /\ UNCHANGED lockOp
    /\ actor' = th

\* _cleanup: connection and channel are dropped, and of the buffered
\* messages the keep that need no acknowledgement stay
LockCleanup(g, keep) == [g EXCEPT !.channel = FALSE, !.buffered = keep]

\* stop()
StopBody(th) ==
    /\ Inside(th, "stop")
    /\ guarded' = (IF ~guarded.started THEN guarded
                   ELSE [guarded EXCEPT !.started = FALSE])
    /\ LeaveOperation(th)
    /\ UNCHANGED notLockVars

\* cleanup()
CleanupBody(th, keep) ==
    /\ Inside(th, "cleanup")
    /\ keep \in 0..guarded.buffered
    /\ guarded' = LockCleanup(guarded, keep)
    /\ LeaveOperation(th)
    /\ UNCHANGED notLockVars

\* reconnect(): _cleanup, _reconnect, and _cleanup again if that raised
ReconnectBody(th, keep, ok) ==
    /\ Inside(th, "reconnect")
    /\ keep \in 0..guarded.buffered
    /\ guarded' = [LockCleanup(guarded, keep) EXCEPT !.channel = ok]
    /\ LeaveOperation(th)
    /\ UNCHANGED notLockVars

\* the loop condition of poll(timeout=None, prefetch_size=1)
LockPollCondition == guarded.buffered < 1 /\ guarded.started

\* an iteration of poll finds its loop condition true and enters the try
\* block
PollEnters(th) ==
    /\ Inside(th, "poll")
    /\ LockPollCondition
    /\ lockPc' = [lockPc EXCEPT ![th] = "pumping"]
    /\ actor' = th
    /\ UNCHANGED <<lock, lockOp, guarded>>
    /\ UNCHANGED notLockVars

\* the thread is inside the try block of a poll iteration
Pumping(th) == lockPc[th] = "pumping" /\ lock = th /\ lockOp[th] = "poll"

\* the try block pumps one slice of broker I/O, after a _reconnect if there
\* was no channel; n messages are delivered into the buffer; the loop goes
\* round
PollSlice(th, n) ==
    /\ Pumping(th)
    /\ guarded.buffered + n <= MaxMsgs
    /\ guarded' = [guarded EXCEPT !.channel = TRUE,
                                  !.buffered = guarded.buffered + n]
    /\ SliceReleasesLock(th)
    /\ UNCHANGED notLockVars

\* _reconnect or process_data_events raises in the try block: _cleanup on a
\* connectivity error, and the error leaves poll
PollSliceRaises(th, connectivity, keep, channel) ==
    /\ Pumping(th)
    /\ keep \in 0..guarded.buffered
    /\ guarded' = (IF connectivity THEN LockCleanup(guarded, keep)
                   ELSE [guarded EXCEPT !.channel = channel])
    /\ ~connectivity => keep = guarded.buffered
    /\ (~connectivity /\ guarded.channel) => channel
    /\ connectivity => ~channel
    /\ LeaveOperation(th)
    /\ UNCHANGED notLockVars

\* the else branch of an iteration: the head of the buffer is returned
PollReturns(th) ==
    /\ Inside(th, "poll")
    /\ ~LockPollCondition
    /\ guarded' = [guarded EXCEPT !.buffered =
                      IF guarded.buffered < 1 THEN 0
                      ELSE guarded.buffered - 1]
    /\ LeaveOperation(th)
    /\ UNCHANGED notLockVars

\* the steps a thread takes inside a with block
Body(th) ==
    \/ StopBody(th)
    \/ PollEnters(th)
    \/ \E keep \in 0..MaxMsgs : CleanupBody(th, keep)
    \/ \E keep \in 0..MaxMsgs, ok \in BOOLEAN : ReconnectBody(th, keep, ok)
    \/ \E n \in 0..MaxBatch : PollSlice(th, n)
    \/ \E connectivity \in BOOLEAN, keep \in 0..MaxMsgs, channel \in BOOLEAN :
          PollSliceRaises(th, connectivity, keep, channel)
    \/ PollReturns(th)

NextLock ==
    \/ \E th \in LockThreads, o \in LockedOps : LockedCall(th, o)
    \/ \E th \in LockThreads : StartCall(th)
    \/ \E th \in LockThreads : Acquire(th)
    \/ \E th \in LockThreads : StopBody(th)
    \/ \E th \in LockThreads : PollEnters(th)
    \/ \E th \in LockThreads, keep \in 0..MaxMsgs : CleanupBody(th, keep)
    \/ \E th \in LockThreads, keep \in 0..MaxMsgs, ok \in BOOLEAN :
          ReconnectBody(th, keep, ok)
    \/ \E th \in LockThreads, n \in 0..MaxBatch : PollSlice(th, n)
    \/ \E th \in LockThreads, connectivity \in BOOLEAN, keep \in 0..MaxMsgs,
          channel \in BOOLEAN : PollSliceRaises(th, connectivity, keep, channel)
    \/ \E th \in LockThreads : PollReturns(th)

(***************************************************************************)
(* RpcReplyPikaPoller.start(timeout): the started flag is set, and         *)
(* reconnect() is retried until it succeeds or the retrier stops.  Time is *)
(* counted in units of rpc_reply_retry_delay.                              *)
(***************************************************************************)
\* rpc_reply_retry_delay, the unit of time of start
RpcReplyRetryDelay == 1

\* rpc_reply_retry_attempts as configured
ReplyRetryAttempts == -1..MaxRetry

\* RpcReplyPikaPoller._declare_queue_binding: {self._queue: False}
ReplyDeclareQueueBinding == { [queue |-> "reply_queue", no_ack |-> FALSE] }

ReplyInitPoller ==
    [connection |-> FALSE, channel |-> FALSE, qos |-> FALSE,
     queues_to_consume |-> <<>>, consumers |-> {}, exists |-> FALSE]

\* PikaPoller._cleanup, for a poller with an empty buffer
ReplyCleanup(p) ==
    [p EXCEPT !.connection = FALSE, !.channel = FALSE, !.qos = FALSE,
              !.consumers = {}]

\* the step "basic_consume" of _reconnect can succeed only on a queue that
\* exists: one declared now, or declared before and still there
ConsumePossible(p) == p.queues_to_consume = <<>> \/ p.exists

\* the steps of _reconnect that can fail; basic_consume fails at least when
\* the queue does not exist
ReplyStepPossible(p, at) ==
    /\ at \in ReconnectSteps \cup {"none"}
    /\ at = "declare" => p.queues_to_consume = <<>>
    /\ at = "none" => ConsumePossible(p)

\* PikaPoller._reconnect with RpcReplyPikaPoller._declare_queue_binding; at
\* is the step that fails ("none": no step)
ReplyReconnect(p, at) ==
    IF at = "create_connection" THEN p
    ELSE
    LET p1 == [p EXCEPT !.connection = TRUE]
    IN IF at = "channel" THEN p1
    ELSE
    LET p2 == [p1 EXCEPT !.channel = TRUE]
    IN IF at = "basic_qos" THEN p2
    ELSE
    LET p3 == [p2 EXCEPT !.qos = TRUE]
    IN IF at = "declare" THEN p3
    ELSE
    LET p4 == IF p3.queues_to_consume = <<>>
              THEN [p3 EXCEPT !.queues_to_consume = <<ReplyDeclareQueueBinding>>,
                              !.exists = TRUE]
              ELSE p3
    IN IF at = "basic_consume"
       THEN [p4 EXCEPT !.queues_to_consume = <<>>]
       ELSE [p4 EXCEPT !.consumers = p4.queues_to_consume[1]]

\* PikaPoller.reconnect: _cleanup, _reconnect, and _cleanup if it raised
ReplyPublicReconnect(p, at) ==
    LET r == ReplyReconnect(ReplyCleanup(p), at)
    IN IF at # "none" THEN ReplyCleanup(r) ELSE r

\* retrying: stop_max_attempt_number and stop_max_delay each add a stop
\* test when not None, and the retrier stops when any of them holds
ReplyShouldStop(n, delay) ==
    \/ n >= replyAttempts
    \/ startTimeout # None /\ delay >= startTimeout

\* a start that returns although its last attempt failed
OutcomeSwallowsFailure(at, n, delay) ==
    IF at = "none" \/ ReplyShouldStop(n, delay) THEN "returned" ELSE "wait"

\* retrier(self.reconnect)(): the call returns when reconnect does; when
\* reconnect raises, on_exception is True and the retrier waits for the
\* next attempt unless it stops, and then it raises the exception
Outcome(at, n, delay) ==
    IF at = "none" THEN "returned"
    ELSE IF ReplyShouldStop(n, delay) THEN "raised" ELSE "wait"

ReplyInit ==
    /\ replyPoller = ReplyInitPoller
    /\ replyStarted = FALSE
    /\ startPc = "idle"
    /\ startAttempt = 0
    /\ startElapsed = 0
    /\ startTimeout = None
    /\ replyAttempts = -1
    /\ startRaised = NoError

\* start(timeout=to), with rpc_reply_retry_attempts = n, up to the first
\* attempt
ReplyStartCall(to, n) ==
    /\ startPc \in {"idle", "returned", "raised", "polled"}
    /\ replyStarted' = TRUE
    /\ startPc' = "attempt"
    /\ startAttempt' = 1
    /\ startElapsed' = 0
    /\ startTimeout' = to
    /\ replyAttempts' = n
    /\ startRaised' = NoError
    /\ UNCHANGED replyPoller
    /\ UNCHANGED notReplyVars

\* one call of reconnect() by the retrier; err is raised at step at
ReplyAttempt(at, err) ==
    /\ startPc = "attempt"
    /\ ReplyStepPossible(ReplyCleanup(replyPoller), at)
    /\ replyPoller' = ReplyPublicReconnect(replyPoller, at)
    /\ startRaised' = err
    /\ startPc' = Outcome(at, startAttempt, startElapsed)
    /\ UNCHANGED <<replyStarted, startAttempt, startElapsed, startTimeout,
                   replyAttempts>>
    /\ UNCHANGED notReplyVars

\* the fixed wait between two attempts
ReplyRetryWait ==
    /\ startPc = "wait"
    /\ startPc' = "attempt"
    /\ startAttempt' = startAttempt + 1
    /\ startElapsed' = After(startElapsed, RpcReplyRetryDelay)
    /\ UNCHANGED <<replyPoller, replyStarted, startTimeout, replyAttempts,
                   startRaised>>
    /\ UNCHANGED notReplyVars

\* time passes while an attempt is made
ReplyTick ==
    /\ startPc = "attempt"
    /\ startElapsed < Horizon
    /\ startElapsed' = startElapsed + 1
    /\ UNCHANGED <<replyPoller, replyStarted, startPc, startAttempt,
                   startTimeout, replyAttempts, startRaised>>
    /\ UNCHANGED notReplyVars

\* the broker deletes the reply queue, which nobody consumes, when its
\* rpc_queue_expiration has passed
ReplyQueueExpires ==
    /\ replyPoller.exists
    /\ replyPoller.consumers = {}
    /\ replyPoller' = [replyPoller EXCEPT !.exists = FALSE]
    /\ UNCHANGED <<replyStarted, startPc, startAttempt, startElapsed,
                   startTimeout, replyAttempts, startRaised>>
    /\ UNCHANGED notReplyVars

\* cleanup() of the reply poller, as the listener's cleanup calls it
ReplyCleanupCall ==
    /\ startPc \in {"idle", "returned", "raised", "polled"}
    /\ replyPoller' = ReplyCleanup(replyPoller)
    /\ startPc' = "idle"
    /\ UNCHANGED <<replyStarted, startAttempt, startElapsed, startTimeout,
                   replyAttempts, startRaised>>
    /\ UNCHANGED notReplyVars

\* one iteration of poll() on the reply poller, its buffer empty and no
\* timeout given, after start has ended: when the poller is started it
\* calls _reconnect if there is no channel (err is raised at step at) and
\* pumps; the except clause cleans up on a connectivity error only
ReplyPollIteration(p, is_started, at, err) ==
    IF ~is_started \/ p.channel THEN p
    ELSE IF at = "none" THEN ReplyReconnect(p, "none")
    ELSE IF IsConnectivityError(err) THEN ReplyCleanup(ReplyReconnect(p, at))
    ELSE ReplyReconnect(p, at)

\* poll() is called on the reply poller after start has ended
ReplyPoll(at, err) ==
    /\ startPc \in {"returned", "raised", "polled"}
    /\ ReplyStepPossible(replyPoller, at)
    /\ (~replyStarted \/ replyPoller.channel) => at = "none"
    /\ replyPoller' = ReplyPollIteration(replyPoller, replyStarted, at, err)
    /\ startPc' = "polled"
    /\ UNCHANGED <<replyStarted, startAttempt, startElapsed, startTimeout,
                   replyAttempts, startRaised>>
    /\ UNCHANGED notReplyVars

NextReply ==
    \/ \E to \in SendTimeouts, n \in ReplyRetryAttempts : ReplyStartCall(to, n)
    \/ \E at \in ReconnectSteps \cup {"none"},
          err \in PikaErrors \cup {"ConnectionException", NoError} :
          /\ IF at = "none" THEN err = NoError ELSE err \in StepErrors(at)
          /\ ReplyAttempt(at, err)
    \/ ReplyRetryWait
    \/ ReplyTick
    \/ ReplyQueueExpires
    \/ ReplyCleanupCall
    \/ \E at \in ReconnectSteps \cup {"none"},
          err \in PikaErrors \cup {"ConnectionException", NoError} :
          /\ IF at = "none" THEN err = NoError ELSE err \in StepErrors(at)
          /\ ReplyPoll(at, err)

(***************************************************************************)
(* PikaDriver.send_notification and _declare_notification_queue_binding.   *)
(*                                                                         *)
(* The outgoing message applies the retrier to its publish attempts; the   *)
(* retrier asks on_exception about every failure, and on_exception         *)
(* re-declares the binding after an ExchangeNotFoundException or a         *)
(* RoutingException.  The publish is mandatory and confirmed: it succeeds  *)
(* only when the queue is bound.                                           *)
(***************************************************************************)
NotifyErrors == {"ExchangeNotFoundException", "RoutingException",
                 "ConnectionException", "MessageRejectedException",
                 "MessageDeliveryFailure", "MessagingTimeout"}

\* what pool.acquire answers: a connection, pika_pool.Timeout, or an error
\* of the connection it tried to open
AcquireOutcomes == {NoError, "PoolTimeout", "ConnectionException"}

\* what declare_queue_binding_by_channel answers
DeclareOutcomes == {NoError, "ConnectionException", "OtherError"}

\* the timeouts _declare_notification_queue_binding is called with; -2 is a
\* negative timeout
DeclareTimeouts == {None, -2, 0, 1}

\* a _declare_notification_queue_binding that lets pika_pool.Timeout through
DeclareLeaksPoolTimeout(to, acquire, declare) ==
    IF to # None /\ to < 0
    THEN [timeout |-> to, pool |-> NoError, acquired |-> FALSE,
          declared |-> FALSE, raised |-> "MessagingTimeout"]
    ELSE IF acquire # NoError
    THEN [timeout |-> to, pool |-> acquire, acquired |-> FALSE,
          declared |-> FALSE, raised |-> acquire]
    ELSE [timeout |-> to, pool |-> acquire, acquired |-> TRUE,
          declared |-> declare = NoError, raised |-> declare]

\* _declare_notification_queue_binding(target, timeout): what the call did
\* and what it raised
DeclareNotificationQueueBinding(to, acquire, declare) ==
    IF to # None /\ to < 0
    THEN [timeout |-> to, pool |-> NoError, acquired |-> FALSE,
          declared |-> FALSE, raised |-> "MessagingTimeout"]
    ELSE IF acquire = "PoolTimeout"
    THEN [timeout |-> to, pool |-> acquire, acquired |-> FALSE,
          declared |-> FALSE, raised |-> "MessagingTimeout"]
    ELSE IF acquire # NoError
    THEN [timeout |-> to, pool |-> acquire, acquired |-> FALSE,
          declared |-> FALSE, raised |-> acquire]
    ELSE [timeout |-> to, pool |-> acquire, acquired |-> TRUE,
          declared |-> declare = NoError, raised |-> declare]

NoDeclaration ==
    [timeout |-> None, pool |-> NoError, acquired |-> FALSE,
     declared |-> FALSE, raised |-> NoError]

\* isinstance(ex, (ExchangeNotFoundException, RoutingException))
NeedsRedeclare(ex) ==
    ex \in {"ExchangeNotFoundException", "RoutingException"}

\* isinstance(ex, (ConnectionException, MessageRejectedException))
RetriedAsIs(ex) == ex \in {"ConnectionException", "MessageRejectedException"}

\* an on_exception that has every failure it retries retried as it is
OnExceptionNoRedeclare(ex) ==
    IF NeedsRedeclare(ex) \/ RetriedAsIs(ex) THEN "retry" ELSE "raise"

\* on_exception of send_notification: the branch it takes for ex
NotifyOnException(ex) ==
    IF NeedsRedeclare(ex) THEN "redeclare"
    ELSE IF RetriedAsIs(ex) THEN "retry"
    ELSE "raise"

\* except pika_drv_exc.ConnectionException as e: LOG.warn(str(e))
Swallowed(ex) == ex = "ConnectionException"

\* stop_max_attempt_number=(None if retry == -1 else retry)
NotifyShouldStop(n) == notifyRetry # -1 /\ n >= notifyRetry

NotifyInit ==
    /\ notifyPc = "idle"
    /\ notifyRetry = -1
    /\ notifyAttempt = 0
    /\ notifyFailure = NoError
    /\ notifyRaised = NoError
    /\ redeclared = "no"
    /\ bound = FALSE
    /\ declared = NoDeclaration

\* send_notification(target, ctxt, message, version, retry=r) up to the
\* first attempt
NotifyCall(r) ==
    /\ notifyPc \in {"idle", "done"}
    /\ notifyPc' = "attempt"
    /\ notifyRetry' = r
    /\ notifyAttempt' = 1
    /\ notifyFailure' = NoError
    /\ notifyRaised' = NoError
    /\ redeclared' = "no"
    /\ UNCHANGED <<bound, declared>>
    /\ UNCHANGED notNotifyVars

\* the retrier after on_exception answered True: it raises the failure of
\* the attempt when it stops, and waits for the next attempt otherwise
RetrierGoesOn(ex) ==
    IF NotifyShouldStop(notifyAttempt)
    THEN notifyPc' = "done" /\ notifyRaised' = ex
    ELSE notifyPc' = "wait" /\ notifyRaised' = NoError

\* a publish attempt; ex is what it ends with
NotifyPublish(ex) ==
    /\ notifyPc = "attempt"
    /\ ex = NoError => bound
    /\ NeedsRedeclare(ex) => ~bound
    /\ notifyFailure' = ex
    /\ redeclared' = "no"
    /\ IF ex = NoError
       THEN notifyPc' = "done" /\ notifyRaised' = NoError
       ELSE IF NotifyOnException(ex) = "redeclare"
       THEN notifyPc' = "on_exception" /\ notifyRaised' = NoError
       ELSE IF NotifyOnException(ex) = "retry"
       THEN RetrierGoesOn(ex)
       ELSE notifyPc' = "done" /\ notifyRaised' = ex
    /\ UNCHANGED <<notifyRetry, notifyAttempt, bound, declared>>
    /\ UNCHANGED notNotifyVars

\* on_exception re-declares the binding: a ConnectionException of the
\* declaration is logged, any other exception leaves on_exception and the
\* retrier and ends the send
NotifyRedeclare(acquire, declare) ==
    /\ notifyPc = "on_exception"
    /\ LET d == DeclareNotificationQueueBinding(None, acquire, declare)
       IN /\ declared' = d
          /\ bound' = (bound \/ d.declared)
          /\ redeclared' = IF d.raised = NoError THEN "declared" ELSE d.raised
          /\ IF d.raised = NoError \/ Swallowed(d.raised)
             THEN RetrierGoesOn(notifyFailure)
             ELSE notifyPc' = "done" /\ notifyRaised' = d.raised
    /\ UNCHANGED <<notifyRetry, notifyAttempt, notifyFailure>>
    /\ UNCHANGED notNotifyVars

\* the fixed wait between two attempts
NotifyWait ==
    /\ notifyPc = "wait"
    /\ notifyAttempt < MaxAttempts
    /\ notifyPc' = "attempt"
    /\ notifyAttempt' = notifyAttempt + 1
    /\ UNCHANGED <<notifyRetry, notifyFailure, notifyRaised, redeclared,
                   bound, declared>>
    /\ UNCHANGED notNotifyVars

\* _declare_notification_queue_binding(target, timeout) is called
DeclareCall(to, acquire, declare) ==
    /\ notifyPc \in {"idle", "done"}
    /\ declared' = DeclareNotificationQueueBinding(to, acquire, declare)
    /\ bound' = (bound \/ declared'.declared)
    /\ UNCHANGED <<notifyPc, notifyRetry, notifyAttempt, notifyFailure,
                   notifyRaised, redeclared>>
    /\ UNCHANGED notNotifyVars

\* the queue or its exchange is deleted on the broker
BindingDeleted ==
    /\ bound
    /\ bound' = FALSE
    /\ UNCHANGED <<notifyPc, notifyRetry, notifyAttempt, notifyFailure,
                   notifyRaised, redeclared, declared>>
    /\ UNCHANGED notNotifyVars

NextNotify ==
    \/ \E r \in RetryArgs : NotifyCall(r)
    \/ \E ex \in NotifyErrors \cup {NoError} : NotifyPublish(ex)
    \/ \E acquire \in AcquireOutcomes, declare \in DeclareOutcomes :
          NotifyRedeclare(acquire, declare)
    \/ NotifyWait
    \/ \E to \in DeclareTimeouts, acquire \in AcquireOutcomes,
          declare \in DeclareOutcomes : DeclareCall(to, acquire, declare)
    \/ BindingDeleted

(***************************************************************************)
(* PikaDriver.send: what is passed to the outgoing message and what is     *)
(* done with the reply it returns.                                         *)
(***************************************************************************)
WaitForReplyArgs == {"None", "False", "True"}

\* the truth value Python gives the argument
Truthy(w) == w = "True"

\* the replies a server sends: a result (which may be None) and no failure,
\* or a failure
Replies ==
    { [result |-> r, failure |-> NoError] : r \in {"None", "result"} }
    \cup { [result |-> "None", failure |-> "RemoteError"] }

NoOutcome == [kind |-> "none", value |-> "None"]

\* a send that returns the result of a reply whatever it carries
OutcomeIgnoresFailure(rep) ==
    IF rep = <<>> THEN [kind |-> "returned", value |-> "None"]
    ELSE [kind |-> "returned", value |-> rep[1].result]

\* if reply is not None:
\*     if reply.failure is not None: raise reply.failure
\*     return reply.result
DriverOutcome(rep) ==
    IF rep = <<>> THEN [kind |-> "returned", value |-> "None"]
    ELSE IF rep[1].failure # NoError
         THEN [kind |-> "raised", value |-> rep[1].failure]
         ELSE [kind |-> "returned", value |-> rep[1].result]

DriverInit ==
    /\ dsPc = [c \in Callers |-> "idle"]
    /\ wait_for_reply = [c \in Callers |-> "None"]
    /\ reply_listener = [c \in Callers |-> FALSE]
    /\ registered = [c \in Callers |-> FALSE]
    /\ reply = [c \in Callers |-> <<>>]
    /\ sendOutcome = [c \in Callers |-> NoOutcome]

\* send(target, ctxt, message, wait_for_reply=w) up to the call of msg.send:
\* reply_listener=self._reply_listener if wait_for_reply else None
DriverSendCall(c, w) ==
    /\ dsPc[c] \in {"idle", "done"}
    /\ dsPc' = [dsPc EXCEPT ![c] = "sending"]
    /\ wait_for_reply' = [wait_for_reply EXCEPT ![c] = w]
    /\ reply_listener' = [reply_listener EXCEPT ![c] = Truthy(w)]
    /\ registered' = [registered EXCEPT ![c] = FALSE]
    /\ reply' = [reply EXCEPT ![c] = <<>>]
    /\ sendOutcome' = [sendOutcome EXCEPT ![c] = NoOutcome]
    /\ UNCHANGED notDriverVars

\* msg.send registers a reply waiter when it was given a reply listener
MsgSendRegisters(c) ==
    /\ dsPc[c] = "sending"
    /\ reply_listener[c]
    /\ ~registered[c]
    /\ registered' = [registered EXCEPT ![c] = TRUE]
    /\ UNCHANGED <<dsPc, wait_for_reply, reply_listener, reply, sendOutcome>>
    /\ UNCHANGED notDriverVars

\* msg.send raises: the publish failed, or no reply came in time
MsgSendRaises(c, ex) ==
    /\ dsPc[c] = "sending"
    /\ reply_listener[c] => registered[c]
    /\ ex = "MessagingTimeout" => reply_listener[c]
    /\ dsPc' = [dsPc EXCEPT ![c] = "done"]
    /\ sendOutcome' = [sendOutcome EXCEPT
                          ![c] = [kind |-> "raised", value |-> ex]]
    /\ UNCHANGED <<wait_for_reply, reply_listener, registered, reply>>
    /\ UNCHANGED notDriverVars

\* msg.send returns: None when it was given no reply listener, else the
\* reply rep[1] its waiter received
MsgSendReturns(c, rep) ==
    /\ dsPc[c] = "sending"
    /\ IF reply_listener[c]
       THEN registered[c] /\ rep # <<>>
       ELSE rep = <<>>
    /\ dsPc' = [dsPc EXCEPT ![c] = "replied"]
    /\ reply' = [reply EXCEPT ![c] = rep]
    /\ UNCHANGED <<wait_for_reply, reply_listener, registered, sendOutcome>>
    /\ UNCHANGED notDriverVars

\* send returns the reply's result or raises its failure
DriverSendEnds(c) ==
    /\ dsPc[c] = "replied"
    /\ dsPc' = [dsPc EXCEPT ![c] = "done"]
    /\ sendOutcome' = [sendOutcome EXCEPT ![c] = DriverOutcome(reply[c])]
    /\ UNCHANGED <<wait_for_reply, reply_listener, registered, reply>>
    /\ UNCHANGED notDriverVars

NextDriver ==
    \/ \E c \in Callers, w \in WaitForReplyArgs : DriverSendCall(c, w)
    \/ \E c \in Callers : MsgSendRegisters(c)
    \/ \E c \in Callers, ex \in {"ConnectionException", "MessagingTimeout"} :
          MsgSendRaises(c, ex)
    \/ \E c \in Callers, rep \in {<<>>} \cup { <<r>> : r \in Replies } :
          MsgSendReturns(c, rep)
    \/ \E c \in Callers : DriverSendEnds(c)

(***************************************************************************)
(* The messages: PikaOutgoingMessage, RpcPikaOutgoingMessage,              *)
(* RpcReplyPikaOutgoingMessage, PikaIncomingMessage, RpcPikaIncomingMessage *)
(* and RpcReplyPikaIncomingMessage.  An absent value (None) of a field     *)
(* that holds text is <<>>, a present one is <<value>>.                    *)
(***************************************************************************)

\* the operations one behaviour starts
MaxOps == 2

Pools == {"connection_with_confirmation_pool",
          "connection_without_confirmation_pool"}

\* the pool a send takes its connection from
PoolForIgnoresConfirm(confirm) == "connection_with_confirmation_pool"
PoolFor(confirm) ==
    IF confirm THEN "connection_with_confirmation_pool"
    ELSE "connection_without_confirmation_pool"

\* properties.delivery_mode of a message
DeliveryMode(persistent) == IF persistent THEN 2 ELSE 1

\* the body of a request or of a notification
MessageBody == [e |-> <<>>, s |-> <<>>]

\* one successful send without retrier: a connection is acquired from the
\* pool that confirm selects and the message is published once on it, with
\* the correlation_id and the reply_to of props
DoSend(exchange, routing_key, confirm, mandatory, persistent, props, body) ==
    /\ poolUse' = [poolUse EXCEPT ![PoolFor(confirm)] = @ + 1]
    /\ publishLog' = Append(publishLog,
           [pool |-> PoolFor(confirm),
            exchange |-> exchange,
            routing_key |-> routing_key,
            mandatory |-> mandatory,
            delivery_mode |-> DeliveryMode(persistent),
            correlation_id |-> props.correlation_id,
            reply_to |-> props.reply_to,
            body |-> body])

\* PikaOutgoingMessage.send(exchange, routing_key, confirm, mandatory,
\* persistent, expiration_time, retrier=None), succeeding
MsgSend(confirm, mandatory, persistent) ==
    /\ replyPc = "idle"
    /\ msgOps < MaxOps
    /\ msgOps' = msgOps + 1
    /\ DoSend("it is exchange", "it is routing key", confirm, mandatory,
              persistent, [correlation_id |-> None, reply_to |-> <<>>],
              MessageBody)
    /\ returned' = <<>>
    /\ UNCHANGED <<waiterLog, uuid4, brokerLog, replyPc, replyTry, outgoing,
                   parsed, rpc_reply_retry_attempts>>
    /\ lastCall' = [op |-> "send", arg |-> ""]
    /\ UNCHANGED notMsgVars

\* what the waiter of a call can give: the future of the test gives a value
FutureResults == {"it is a result"}

\* reply_listener.get_reply_qname()
ReplyQname == "reply queue name"

\* RpcPikaOutgoingMessage.send(target, reply_listener, expiration_time,
\* retrier): with a reply listener the message gets a fresh msg_id as its
\* correlation_id and the listener's queue as its reply_to, a waiter is
\* registered for the msg_id and its result is returned; without one the
\* message is sent as it is
RpcSendSkipsRegister(listener, future) ==
    /\ replyPc = "idle"
    /\ msgOps < MaxOps
    /\ msgOps' = msgOps + 1
    /\ uuid4' = IF listener THEN uuid4 + 1 ELSE uuid4
    /\ DoSend("it is exchange", "it is routing key", TRUE, TRUE, FALSE,
              [correlation_id |-> IF listener THEN uuid4 + 1 ELSE None,
               reply_to |-> IF listener THEN <<ReplyQname>> ELSE <<>>],
              MessageBody)
    /\ returned' = IF listener THEN <<future>> ELSE <<>>
    /\ UNCHANGED <<waiterLog, brokerLog, replyPc, replyTry, outgoing,
                   parsed, rpc_reply_retry_attempts>>
    /\ lastCall' = [op |-> "rpc_send", arg |-> IF listener THEN "call" ELSE "cast"]
    /\ UNCHANGED notMsgVars
RpcSend(listener, future) ==
    /\ replyPc = "idle"
    /\ msgOps < MaxOps
    /\ msgOps' = msgOps + 1
    /\ uuid4' = IF listener THEN uuid4 + 1 ELSE uuid4
    /\ waiterLog' = IF listener THEN Append(waiterLog, uuid4 + 1)
                    ELSE waiterLog
    /\ DoSend("it is exchange", "it is routing key", TRUE, TRUE, FALSE,
              [correlation_id |-> IF listener THEN uuid4 + 1 ELSE None,
               reply_to |-> IF listener THEN <<ReplyQname>> ELSE <<>>],
              MessageBody)
    /\ returned' = IF listener THEN <<future>> ELSE <<>>
    /\ UNCHANGED <<brokerLog, replyPc, replyTry, outgoing, parsed,
                   rpc_reply_retry_attempts>>
    /\ lastCall' = [op |-> "rpc_send", arg |-> IF listener THEN "call" ELSE "cast"]
    /\ UNCHANGED notMsgVars

\* the incoming RPC messages: a call carries a correlation id and a reply_to,
\* a cast carries neither
RpcIncoming ==
    {[msg_id |-> None, reply_q |-> <<>>]}
    \cup {[msg_id |-> id, reply_q |-> <<"reply_queue">>] : id \in 1..2}

\* failure_info as it goes on the wire: the class and the module of the
\* exception, its message and its trace
Failures ==
    {[c |-> "MessagingException", m |-> "oslo_messaging.exceptions",
      s |-> "Error message", t |-> "TRACE HERE"],
     [c |-> "OSError", m |-> "os",
      s |-> "No such file", t |-> "TRACE HERE"]}

\* the arguments of reply(): a result (which may be None), or a failure
ReplyArgs ==
    {[reply |-> r, failure |-> <<>>] : r \in {<<>>, <<"all_fine">>}}
    \cup {[reply |-> <<>>, failure |-> <<f>>] : f \in Failures}

\* the body of an RpcReplyPikaOutgoingMessage: {"e": {...}} for a failure,
\* {"s": reply} otherwise
ReplyBody(r) ==
    IF r.failure # <<>> THEN [e |-> r.failure, s |-> <<>>]
    ELSE [e |-> <<>>, s |-> r.reply]

\* the retrier reply() builds
ReplyRetrier ==
    [stop_max_attempt_number |-> rpc_reply_retry_attempts,
     wait_fixed |-> RpcReplyRetryDelay * 1000]

RpcReplyExchange == "rpc_reply_exchange"

\* RpcPikaIncomingMessage.reply(reply, failure): nothing for a message
\* without reply queue; else one RpcReplyPikaOutgoingMessage for the msg_id
\* is built and its send is started under the retrier
ReplyRepliesToCast(m, r) ==
    /\ replyPc = "idle"
    /\ rpc_reply_retry_attempts # None
    /\ msgOps < MaxOps
    /\ msgOps' = msgOps + 1
    /\ replyPc' = "sending"
    /\ replyTry' = 1
    /\ outgoing' = <<[msg_id |-> m.msg_id, reply_q |-> m.reply_q,
                      body |-> ReplyBody(r), retrier |-> ReplyRetrier]>>
    /\ UNCHANGED <<publishLog, poolUse, waiterLog, uuid4, returned,
                   brokerLog, parsed, rpc_reply_retry_attempts>>
    /\ lastCall' = [op |-> "reply", arg |-> IF m.reply_q = <<>> THEN "cast" ELSE "call"]
    /\ UNCHANGED notMsgVars
Reply(m, r) ==
    /\ replyPc = "idle"
    /\ rpc_reply_retry_attempts # None
    /\ msgOps < MaxOps
    /\ msgOps' = msgOps + 1
    /\ IF m.reply_q = <<>>
       THEN UNCHANGED <<replyPc, replyTry, outgoing>>
       ELSE /\ replyPc' = "sending"
            /\ replyTry' = 1
            /\ outgoing' = <<[msg_id |-> m.msg_id, reply_q |-> m.reply_q,
                              body |-> ReplyBody(r),
                              retrier |-> ReplyRetrier]>>
    /\ UNCHANGED <<publishLog, poolUse, waiterLog, uuid4, returned,
                   brokerLog, parsed, rpc_reply_retry_attempts>>
    /\ lastCall' = [op |-> "reply", arg |-> IF m.reply_q = <<>> THEN "cast" ELSE "call"]
    /\ UNCHANGED notMsgVars

\* RpcReplyPikaOutgoingMessage.send(reply_q, expiration_time, retrier), an
\* attempt that succeeds: the reply goes to the reply exchange with the
\* reply queue as its routing key and the msg_id as its correlation_id
ReplyPublished ==
    /\ replyPc = "sending"
    /\ DoSend(RpcReplyExchange, outgoing[1].reply_q[1], TRUE, TRUE, FALSE,
              [correlation_id |-> outgoing[1].msg_id, reply_to |-> <<>>],
              outgoing[1].body)
    /\ replyPc' = "idle"
    /\ outgoing' = <<>>
    /\ UNCHANGED <<waiterLog, uuid4, returned, brokerLog, replyTry, parsed,
                   rpc_reply_retry_attempts, msgOps>>
    /\ UNCHANGED lastCall
    /\ UNCHANGED notMsgVars

\* whether the retrier of a reply stops after attempt n
ReplyStopNever(rt, n) == FALSE
ReplyStop(rt, n) == n >= rt.stop_max_attempt_number

\* an attempt that fails with a transport error: the retrier stops, and
\* reply() gives up, or it waits wait_fixed and the send is tried again
ReplyAttemptFails ==
    /\ replyPc = "sending"
    /\ IF ReplyStop(outgoing[1].retrier, replyTry)
       THEN /\ replyPc' = "idle"
            /\ outgoing' = <<>>
            /\ UNCHANGED replyTry
       ELSE /\ replyTry' = replyTry + 1
            /\ UNCHANGED <<replyPc, outgoing>>
    /\ UNCHANGED <<publishLog, poolUse, waiterLog, uuid4, returned,
                   brokerLog, parsed, rpc_reply_retry_attempts, msgOps>>
    /\ UNCHANGED lastCall
    /\ UNCHANGED notMsgVars

\* the incoming message the callback of a consumer builds: it holds the
\* channel of the poller when the queue is consumed in ack mode, and none
\* when it is consumed in no-ack mode
PollerChannels == {"channel"}
DeliveryTags == 1..2
IncomingMessage(channel, no_ack, delivery_tag) ==
    [channel |-> IF no_ack THEN <<>> ELSE <<channel>>,
     delivery_tag |-> delivery_tag]

\* PikaIncomingMessage.acknowledge / requeue on message m
AcknowledgeAlways(m) ==
    /\ replyPc = "idle"
    /\ msgOps < MaxOps
    /\ msgOps' = msgOps + 1
    /\ brokerLog' = Append(brokerLog,
                        [op |-> "basic_ack", channel |-> m.channel,
                         delivery_tag |-> m.delivery_tag,
                         requeue |-> FALSE])
    /\ UNCHANGED <<publishLog, poolUse, waiterLog, uuid4, returned, replyPc,
                   replyTry, outgoing, parsed, rpc_reply_retry_attempts>>
    /\ lastCall' = [op |-> "acknowledge",
                    arg |-> IF m.channel = <<>> THEN "no_ack" ELSE "ack"]
    /\ UNCHANGED notMsgVars
Acknowledge(m) ==
    /\ replyPc = "idle"
    /\ msgOps < MaxOps
    /\ msgOps' = msgOps + 1
    /\ brokerLog' = IF m.channel # <<>>
                    THEN Append(brokerLog,
                             [op |-> "basic_ack", channel |-> m.channel,
                              delivery_tag |-> m.delivery_tag,
                              requeue |-> FALSE])
                    ELSE brokerLog
    /\ UNCHANGED <<publishLog, poolUse, waiterLog, uuid4, returned, replyPc,
                   replyTry, outgoing, parsed, rpc_reply_retry_attempts>>
    /\ lastCall' = [op |-> "acknowledge",
                    arg |-> IF m.channel = <<>> THEN "no_ack" ELSE "ack"]
    /\ UNCHANGED notMsgVars

Requeue(m) ==
    /\ replyPc = "idle"
    /\ msgOps < MaxOps
    /\ msgOps' = msgOps + 1
    /\ brokerLog' = IF m.channel # <<>>
                    THEN Append(brokerLog,
                             [op |-> "basic_nack", channel |-> m.channel,
                              delivery_tag |-> m.delivery_tag,
                              requeue |-> TRUE])
                    ELSE brokerLog
    /\ UNCHANGED <<publishLog, poolUse, waiterLog, uuid4, returned, replyPc,
                   replyTry, outgoing, parsed, rpc_reply_retry_attempts>>
    /\ lastCall' = [op |-> "requeue",
                    arg |-> IF m.channel = <<>> THEN "no_ack" ELSE "ack"]
    /\ UNCHANGED notMsgVars

\* pika_engine.allowed_remote_exmods
AllowedRemoteExmods == {"pika_exceptions", "oslo_messaging.exceptions"}

\* RpcReplyPikaIncomingMessage: the reply built from a delivery with the
\* given correlation_id and body.  A body without "e" gives the result under
\* "s"; one with "e" gives the failure, an instance of the class it names
\* when the module it names is allowed and a RemoteError otherwise
ParseTrustsModule(correlation_id, body) ==
    IF body.e = <<>>
    THEN [msg_id |-> correlation_id, result |-> body.s, failure |-> <<>>]
    ELSE [msg_id |-> correlation_id, result |-> <<>>,
          failure |-> <<[kind |-> body.e[1].c, text |-> body.e[1].s,
                         trace |-> body.e[1].t]>>]
RpcReplyPikaIncomingMessage(correlation_id, body) ==
    IF body.e = <<>>
    THEN [msg_id |-> correlation_id, result |-> body.s, failure |-> <<>>]
    ELSE [msg_id |-> correlation_id, result |-> <<>>,
          failure |-> <<[kind |-> IF body.e[1].m \in AllowedRemoteExmods
                                  THEN body.e[1].c ELSE "RemoteError",
                         text |-> body.e[1].s,
                         trace |-> body.e[1].t]>>]

\* the reply poller receives the i-th publish, a reply, and parses it
ReplyReceived(i) ==
    /\ replyPc = "idle"
    /\ i \in 1..Len(publishLog)
    /\ publishLog[i].exchange = RpcReplyExchange
    /\ parsed' = <<RpcReplyPikaIncomingMessage(publishLog[i].correlation_id,
                                               publishLog[i].body)>>
    /\ parsed' # parsed
    /\ UNCHANGED <<publishLog, poolUse, waiterLog, uuid4, returned,
                   brokerLog, replyPc, replyTry, outgoing,
                   rpc_reply_retry_attempts, msgOps>>
    /\ UNCHANGED lastCall
    /\ UNCHANGED notMsgVars

\* the engine is given its rpc_reply_retry_attempts
MsgConfigure(attempts) ==
    /\ rpc_reply_retry_attempts = None
    /\ rpc_reply_retry_attempts' = attempts
    /\ UNCHANGED <<publishLog, poolUse, waiterLog, uuid4, returned,
                   brokerLog, replyPc, replyTry, outgoing, parsed, msgOps,
                   lastCall>>
    /\ UNCHANGED notMsgVars

MsgInit ==
    /\ publishLog = <<>>
    /\ poolUse = [p \in Pools |-> 0]
    /\ waiterLog = <<>>
    /\ uuid4 = 0
    /\ returned = <<>>
    /\ brokerLog = <<>>
    /\ replyPc = "idle"
    /\ replyTry = 0
    /\ outgoing = <<>>
    /\ parsed = <<>>
    /\ rpc_reply_retry_attempts = None
    /\ msgOps = 0
    /\ lastCall = [op |-> "", arg |-> ""]

NextMessage ==
    \/ \E attempts \in 1..MaxRetry : MsgConfigure(attempts)
    \/ \E confirm \in BOOLEAN, mandatory \in BOOLEAN, persistent \in BOOLEAN :
          MsgSend(confirm, mandatory, persistent)
    \/ \E listener \in BOOLEAN, future \in FutureResults :
          RpcSend(listener, future)
    \/ \E m \in RpcIncoming, r \in ReplyArgs : Reply(m, r)
    \/ ReplyPublished
    \/ ReplyAttemptFails
    \/ \E c \in PollerChannels, no_ack \in BOOLEAN, tag \in DeliveryTags :
          Acknowledge(IncomingMessage(c, no_ack, tag))
    \/ \E c \in PollerChannels, no_ack \in BOOLEAN, tag \in DeliveryTags :
          Requeue(IncomingMessage(c, no_ack, tag))
    \/ \E i \in 1..MaxOps : ReplyReceived(i)

(***************************************************************************)
(* The connection pool.  impl_pika leases a connection with                *)
(* `with pool.acquire(timeout=timeout) as conn` and turns the pool's       *)
(* Timeout into MessagingTimeout; the pool itself is pika_pool.QueuedPool, *)
(* created with max_size=pool_max_size and max_overflow=pool_max_overflow. *)
(***************************************************************************)

\* the largest pool_max_size and pool_max_overflow, and the callers
MaxPoolSize == 1
MaxPoolOverflow == 1
MaxLeases == 3

Leasers == 1..MaxLeases

\* the names of connections (one more than any pool may hold)
PoolConns == 1..(MaxPoolSize + MaxPoolOverflow + 1)

\* how a with block is left: normally, by an error of the application (a
\* declaration the broker refuses), or by an error that invalidates the
\* connection (Connection.connectivity_errors)
LeaseExits == {"normal", "application error", "connectivity error"}

\* Connection.is_connection_invalidated
IsConnectionInvalidated(how) == how = "connectivity error"

PoolCreated == pool_max_size # None

\* QueuedPool._create: allowed while _avail is positive
CanCreateAlways == TRUE
CanCreate == poolAvail > 0

\* the connection a create makes
NewConn == CHOOSE c \in PoolConns \ poolLive :
               \A d \in PoolConns \ poolLive : c <= d

\* acquire takes the connection released last
TakeLeavesInQueue(q) == q
Take(q) == SubSeq(q, 1, Len(q) - 1)

\* QueuedPool.release: back to the queue, or closed when the queue is full
\* (it holds at most max_size connections)
PoolRelease(c) ==
    IF Len(poolQueue) < pool_max_size
    THEN /\ poolQueue' = Append(poolQueue, c)
         /\ UNCHANGED <<poolLive, poolAvail>>
    ELSE /\ poolLive' = poolLive \ {c}
         /\ poolAvail' = poolAvail + 1
         /\ UNCHANGED poolQueue

\* QueuedPool.close
PoolClose(c) ==
    /\ poolLive' = poolLive \ {c}
    /\ poolAvail' = poolAvail + 1
    /\ UNCHANGED poolQueue

\* caller t gets connection c and enters the with block
Enter(t, c) ==
    /\ leasePc' = [leasePc EXCEPT ![t] = "in"]
    /\ lease' = [lease EXCEPT ![t] = c]
    /\ leaseEnd' = [leaseEnd EXCEPT ![t] = "acquired"]

\* acquire finds an idle connection
AcquireIdle(t) ==
    /\ leasePc[t] \in {"out", "waiting"}
    /\ poolQueue # <<>>
    /\ poolQueue' = Take(poolQueue)
    /\ Enter(t, poolQueue[Len(poolQueue)])
    /\ UNCHANGED <<pool_max_size, pool_max_overflow, poolLive, poolAvail>>
    /\ UNCHANGED notPoolVars

\* acquire finds an idle connection that is expired or stale: it closes it
\* and starts again
AcquireExpired(t) ==
    /\ leasePc[t] = "out"
    /\ poolQueue # <<>>
    /\ poolQueue' = Take(poolQueue)
    /\ poolLive' = poolLive \ {poolQueue[Len(poolQueue)]}
    /\ poolAvail' = poolAvail + 1
    /\ leaseEnd' = [leaseEnd EXCEPT ![t] = "closed expired"]
    /\ UNCHANGED <<pool_max_size, pool_max_overflow, leasePc, lease>>
    /\ UNCHANGED notPoolVars

\* acquire finds no idle connection and creates one (at once, or when its
\* wait has timed out)
AcquireCreate(t) ==
    /\ leasePc[t] \in {"out", "waiting"}
    /\ PoolCreated
    /\ poolQueue = <<>>
    /\ CanCreate
    /\ PoolConns \ poolLive # {}
    /\ poolLive' = poolLive \cup {NewConn}
    /\ poolAvail' = poolAvail - 1
    /\ Enter(t, NewConn)
    /\ UNCHANGED <<pool_max_size, pool_max_overflow, poolQueue>>
    /\ UNCHANGED notPoolVars

\* acquire finds no idle connection and may create none: it waits
AcquireWaits(t) ==
    /\ PoolCreated
    /\ leasePc[t] = "out"
    /\ poolQueue = <<>>
    /\ ~CanCreate
    /\ leasePc' = [leasePc EXCEPT ![t] = "waiting"]
    /\ leaseEnd' = [leaseEnd EXCEPT ![t] = "waiting"]
    /\ UNCHANGED <<pool_max_size, pool_max_overflow, poolLive, poolQueue,
                   poolAvail, lease>>
    /\ UNCHANGED notPoolVars

\* the wait times out with no connection released and none to create: the
\* pool raises Timeout, which _declare_notification_queue_binding turns
\* into MessagingTimeout
AcquireTimeout(t) ==
    /\ leasePc[t] = "waiting"
    /\ poolQueue = <<>>
    /\ ~CanCreate
    /\ leasePc' = [leasePc EXCEPT ![t] = "out"]
    /\ leaseEnd' = [leaseEnd EXCEPT ![t] = "PoolTimeout"]
    /\ UNCHANGED <<pool_max_size, pool_max_overflow, poolLive, poolQueue,
                   poolAvail, lease>>
    /\ UNCHANGED notPoolVars

\* Connection.__exit__: the with block is left; the connection is closed
\* when the error invalidated it and released otherwise
LeaseExitKeepsInvalidated(t, how) ==
    /\ leasePc[t] = "in"
    /\ IF IsConnectionInvalidated(how)
       THEN UNCHANGED <<poolLive, poolQueue, poolAvail>>
       ELSE PoolRelease(lease[t])
    /\ leasePc' = [leasePc EXCEPT ![t] = "out"]
    /\ lease' = [lease EXCEPT ![t] = None]
    /\ leaseEnd' = [leaseEnd EXCEPT ![t] = how]
    /\ UNCHANGED <<pool_max_size, pool_max_overflow>>
    /\ UNCHANGED notPoolVars
LeaseExit(t, how) ==
    /\ leasePc[t] = "in"
    /\ IF IsConnectionInvalidated(how)
       THEN PoolClose(lease[t])
       ELSE PoolRelease(lease[t])
    /\ leasePc' = [leasePc EXCEPT ![t] = "out"]
    /\ lease' = [lease EXCEPT ![t] = None]
    /\ leaseEnd' = [leaseEnd EXCEPT ![t] = how]
    /\ UNCHANGED <<pool_max_size, pool_max_overflow>>
    /\ UNCHANGED notPoolVars

\* QueuedPool(max_size=pool_max_size, max_overflow=pool_max_overflow)
PoolCreate(max_size, max_overflow) ==
    /\ ~PoolCreated
    /\ pool_max_size' = max_size
    /\ pool_max_overflow' = max_overflow
    /\ poolAvail' = max_size + max_overflow
    /\ UNCHANGED <<poolLive, poolQueue, leasePc, lease, leaseEnd>>
    /\ UNCHANGED notPoolVars

PoolInit ==
    /\ pool_max_size = None
    /\ pool_max_overflow = None
    /\ poolLive = {}
    /\ poolQueue = <<>>
    /\ poolAvail = 0
    /\ leasePc = [t \in Leasers |-> "out"]
    /\ lease = [t \in Leasers |-> None]
    /\ leaseEnd = [t \in Leasers |-> ""]

NextPool ==
    \/ \E max_size \in 1..MaxPoolSize, max_overflow \in 0..MaxPoolOverflow :
          PoolCreate(max_size, max_overflow)
    \/ \E t \in Leasers : AcquireIdle(t)
    \/ \E t \in Leasers : AcquireExpired(t)
    \/ \E t \in Leasers : AcquireCreate(t)
    \/ \E t \in Leasers : AcquireWaits(t)
    \/ \E t \in Leasers : AcquireTimeout(t)
    \/ \E t \in Leasers, how \in LeaseExits : LeaseExit(t, how)

(***************************************************************************)
(* NotificationPikaPoller.  A name built as '%s.%s' % (topic, priority) is *)
(* the pair <<topic, priority>>; a name given as it is, is <<name>>.       *)
(***************************************************************************)

\* the longest targets_and_priorities
MaxTargets == 2

Topics == {"t1", "t2"}
Priorities == {"info", "error"}
TargetExchanges == {<<>>, <<"exchange">>}
PoolNames == {<<>>, <<"pool">>}

TargetsAndPriorities ==
    [target : [exchange : TargetExchanges, topic : Topics],
     priority : Priorities]

DefaultNotificationExchange == "default_notification_exchange"

\* routing_key = '%s.%s' % (target.topic, priority)
NotificationRoutingKey(tp) == <<tp.target.topic, tp.priority>>

\* queue = self._queue_name or routing_key
NotificationQueueIgnoresName(queue_name, routing_key) == routing_key
NotificationQueue(queue_name, routing_key) ==
    IF queue_name # <<>> /\ queue_name # <<"">> THEN queue_name
    ELSE routing_key

\* the declaration made for one (target, priority)
NotificationBinding(queue_name, tp) ==
    [exchange |-> IF tp.target.exchange # <<>> THEN tp.target.exchange[1]
                  ELSE DefaultNotificationExchange,
     exchange_type |-> "direct",
     queue |-> NotificationQueue(queue_name, NotificationRoutingKey(tp)),
     routing_key |-> NotificationRoutingKey(tp)]

RECURSIVE NotificationDeclareQueueBinding(_, _, _)
\* NotificationPikaPoller._declare_queue_binding, from the i-th pair on:
\* the bindings declared, and queues_to_consume as the list of its keys in
\* the order they were set, each with no_ack False
NotificationDeclareQueueBinding(queue_name, tps, acc) ==
    IF tps = <<>> THEN acc
    ELSE LET b == NotificationBinding(queue_name, Head(tps))
             seen == \E i \in 1..Len(acc.queues_to_consume) :
                         acc.queues_to_consume[i].queue = b.queue
         IN  NotificationDeclareQueueBinding(queue_name, Tail(tps),
                 [declared |-> acc.declared \cup {b},
                  queues_to_consume |->
                      IF seen THEN acc.queues_to_consume
                      ELSE Append(acc.queues_to_consume,
                                  [queue |-> b.queue, no_ack |-> FALSE])])

\* PikaDriver.listen_for_notifications: the pool is the poller's queue_name
ListenForNotifications(targets_and_priorities, pool) ==
    /\ npPc = "none"
    /\ npPc' = "started"
    /\ npTargets' = targets_and_priorities
    /\ npPool' = pool
    /\ npQueueName' = pool
    /\ UNCHANGED <<npDeclared, npConsumers>>
    /\ UNCHANGED notNpVars

\* the first _reconnect of the poller, succeeding: it declares the bindings
\* and _start_consuming calls basic_consume for every queue of
\* queues_to_consume with its no_ack
NotificationReconnect ==
    /\ npPc = "started"
    /\ LET r == NotificationDeclareQueueBinding(npQueueName, npTargets,
                    [declared |-> {}, queues_to_consume |-> <<>>])
       IN  /\ npDeclared' = r.declared
           /\ npConsumers' = r.queues_to_consume
    /\ npPc' = "consuming"
    /\ UNCHANGED <<npTargets, npPool, npQueueName>>
    /\ UNCHANGED notNpVars

NpInit ==
    /\ npTargets = <<>>
    /\ npPool = <<>>
    /\ npPc = "none"
    /\ npQueueName = <<>>
    /\ npDeclared = {}
    /\ npConsumers = <<>>

NextNotificationPoller ==
    \/ \E tps \in UNION {[1..n -> TargetsAndPriorities] : n \in 1..MaxTargets},
          pool \in PoolNames :
          ListenForNotifications(tps, pool)
    \/ NotificationReconnect

(***************************************************************************)
(* The RPC service poller: PikaDriver.listen and the topology its first    *)
(* reconnect declares.  The name helpers of the engine follow the naming   *)
(* scheme <topic>[.<server>][.no_ack] for queues and a base exchange with  *)
(* a suffix telling the fanout and no-ack variants apart.                  *)
(***************************************************************************)
MaxListeners == 2

RpcServers == {<<>>, <<"s1">>, <<"s2">>}

\* the targets given to listen: server is <<>> when the target has none
RpcTargets ==
    [exchange : TargetExchanges, topic : Topics, server : RpcServers]

DefaultRpcExchange == "default_rpc_exchange"

\* engine.get_rpc_queue_name(topic, server, no_ack)
GetRpcQueueName(topic, server, no_ack) ==
    <<topic>> \o server \o (IF no_ack THEN <<"no_ack">> ELSE <<>>)

\* engine.get_rpc_exchange_name(exchange, topic, fanout, no_ack)
GetRpcExchangeName(exchange, topic, fanout, no_ack) ==
    [base |-> IF exchange # <<>> THEN exchange[1] ELSE DefaultRpcExchange,
     fanout |-> fanout, no_ack |-> no_ack]

\* an assignment that adds an item whether or not the key is there
DictAppend(d, queue, no_ack) ==
    Append(d, [queue |-> queue, no_ack |-> no_ack])

\* queues_to_consume[queue] = no_ack
DictSet(d, queue, no_ack) ==
    IF \E i \in 1..Len(d) : d[i].queue = queue
    THEN [i \in 1..Len(d) |->
             IF d[i].queue = queue THEN [d[i] EXCEPT !.no_ack = no_ack]
             ELSE d[i]]
    ELSE Append(d, [queue |-> queue, no_ack |-> no_ack])

\* one call of declare_queue_binding_by_channel made in the loop pass of
\* no_ack
RpcBinding(exchange, queue, routing_key, exchange_type, no_ack) ==
    [exchange |-> exchange, queue |-> queue, routing_key |-> routing_key,
     exchange_type |-> exchange_type, durable |-> FALSE, pass |-> no_ack]

\* one pass of the loop of RpcServicePikaPoller._declare_queue_binding
RpcDeclarePass(target, no_ack, acc) ==
    LET exchange == GetRpcExchangeName(target.exchange, target.topic,
                                       FALSE, no_ack)
        fanout_exchange == GetRpcExchangeName(target.exchange, target.topic,
                                              TRUE, no_ack)
        queue == GetRpcQueueName(target.topic, <<>>, no_ack)
        server_queue == GetRpcQueueName(target.topic, target.server, no_ack)
    IN  [queues_to_consume |->
             DictSet(DictSet(acc.queues_to_consume, queue, no_ack),
                     server_queue, no_ack),
         declared |-> acc.declared \cup
             {RpcBinding(exchange, queue, queue, "direct", no_ack),
              RpcBinding(exchange, server_queue, server_queue, "direct",
                         no_ack),
              RpcBinding(fanout_exchange, server_queue, <<>>, "fanout",
                         no_ack)}]

\* RpcServicePikaPoller._declare_queue_binding: for no_ack in [True, False]
RpcServiceDeclareQueueBinding(target) ==
    RpcDeclarePass(target, FALSE,
        RpcDeclarePass(target, TRUE,
            [queues_to_consume |-> <<>>, declared |-> {}]))

\* PikaDriver.listen(target): a poller is made and started
Listen(target) ==
    /\ Len(listeners) < MaxListeners
    /\ listeners' = Append(listeners,
           [target |-> target, pc |-> "started", declared |-> {},
            queues_to_consume |-> <<>>, consumers |-> <<>>])
    /\ UNCHANGED notRsVars

\* the first _reconnect of listener i, succeeding: it declares the bindings
\* and _start_consuming calls basic_consume for every item of
\* queues_to_consume
RpcServiceReconnect(i) ==
    /\ i \in 1..Len(listeners)
    /\ listeners[i].pc = "started"
    /\ LET r == RpcServiceDeclareQueueBinding(listeners[i].target)
       IN  listeners' = [listeners EXCEPT
               ![i] = [@ EXCEPT !.pc = "consuming",
                                !.declared = r.declared,
                                !.queues_to_consume = r.queues_to_consume,
                                !.consumers = r.queues_to_consume]]
    /\ UNCHANGED notRsVars

RsInit == listeners = <<>>

NextRpcService ==
    \/ \E target \in RpcTargets : Listen(target)
    \/ \E i \in 1..MaxListeners : RpcServiceReconnect(i)

(***************************************************************************)
(* Notification requeue: the NotifyEndpoint of tools/simulator.py behind a *)
(* notification listener.  The listener calls the endpoint for every       *)
(* delivered message and requeues the message when the endpoint answers    *)
(* REQUEUE and acknowledges it when it answers HANDLED; the broker puts a  *)
(* requeued message back on its queue.                                     *)
(***************************************************************************)
MaxNotifications == 2

\* deliveries of one message the model follows
MaxDeliveries == 3

NotificationIds == 1..MaxNotifications

Payloads == {"p1", "p2"}

\* an endpoint that never remembers a payload
InfoNoCache(stats, seen, payload) ==
    IF ~stats /\ ~(\E i \in 1..Len(seen) : seen[i] = payload)
    THEN [cache |-> seen, result |-> "REQUEUE"]
    ELSE [cache |-> seen, result |-> "HANDLED"]

\* NotifyEndpoint.info: the cache afterwards and the result returned
NotifyEndpointInfo(stats, seen, payload) ==
    IF ~stats /\ ~(\E i \in 1..Len(seen) : seen[i] = payload)
    THEN [cache |-> Append(seen, payload), result |-> "REQUEUE"]
    ELSE [cache |-> seen, result |-> "HANDLED"]

\* notify_server(transport, show_stats)
NotifyServer(stats) ==
    /\ nqPc = "none"
    /\ nqPc' = "serving"
    /\ show_stats' = stats
    /\ UNCHANGED <<cache, count, nqSent, nqQueue, nqUnacked, nqLog>>
    /\ UNCHANGED notNqVars

\* a notifier publishes a notification with the given payload
NotifierPublish(payload) ==
    /\ nqPc = "serving"
    /\ nqSent < MaxNotifications
    /\ nqSent' = nqSent + 1
    /\ nqQueue' = Append(nqQueue, [id |-> nqSent + 1, payload |-> payload])
    /\ UNCHANGED <<nqPc, show_stats, cache, count, nqUnacked, nqLog>>
    /\ UNCHANGED notNqVars

\* the broker delivers the message at the head of the queue; it stays
\* unacknowledged on the consumer's channel
BrokerDeliver ==
    /\ nqQueue # <<>>
    /\ nqLog[Head(nqQueue).id].delivered < MaxDeliveries
    /\ LET m == Head(nqQueue)
       IN  /\ nqUnacked' = nqUnacked \cup
                  {[id |-> m.id, payload |-> m.payload, result |-> "none"]}
           /\ nqLog' = [nqLog EXCEPT ![m.id].delivered = @ + 1]
    /\ nqQueue' = Tail(nqQueue)
    /\ UNCHANGED <<nqPc, show_stats, cache, count, nqSent>>
    /\ UNCHANGED notNqVars

\* the listener calls endpoint.info for the delivered message id
Info(id) ==
    /\ \E m \in nqUnacked :
          /\ m.id = id
          /\ m.result = "none"
          /\ LET r == NotifyEndpointInfo(show_stats, cache, m.payload)
             IN  /\ cache' = r.cache
                 /\ nqUnacked' = (nqUnacked \ {m})
                                     \cup {[m EXCEPT !.result = r.result]}
                 /\ nqLog' = [nqLog EXCEPT
                       ![id].first = IF @ = "none" THEN r.result ELSE @,
                       ![id].handled = IF r.result = "HANDLED"
                                       THEN @ + 1 ELSE @]
    /\ count' = count + 1
    /\ UNCHANGED <<nqPc, show_stats, nqSent, nqQueue>>
    /\ UNCHANGED notNqVars

\* the listener settles message id as the endpoint answered: REQUEUE is
\* message.requeue() (basic_nack with requeue=True), upon which the broker
\* puts the message back on the queue, at its head or behind what is
\* there; HANDLED is message.acknowledge() (basic_ack)
Dispatched(id, head) ==
    /\ \E m \in nqUnacked :
          /\ m.id = id
          /\ m.result # "none"
          /\ nqUnacked' = nqUnacked \ {m}
          /\ IF m.result = "REQUEUE"
             THEN /\ nqQueue' =
                        IF head
                        THEN <<[id |-> m.id, payload |-> m.payload]>>
                                 \o nqQueue
                        ELSE Append(nqQueue,
                                    [id |-> m.id, payload |-> m.payload])
                  /\ nqLog' = [nqLog EXCEPT ![id].requeued = @ + 1]
             ELSE /\ nqQueue' = nqQueue
                  /\ nqLog' = [nqLog EXCEPT ![id].acked = @ + 1]
    /\ UNCHANGED <<nqPc, show_stats, cache, count, nqSent>>
    /\ UNCHANGED notNqVars

NqInit ==
    /\ nqPc = "none"
    /\ show_stats = FALSE
    /\ cache = <<>>
    /\ count = 0
    /\ nqSent = 0
    /\ nqQueue = <<>>
    /\ nqUnacked = {}
    /\ nqLog = [id \in NotificationIds |->
                   [delivered |-> 0, requeued |-> 0, acked |-> 0,
                    handled |-> 0, first |-> "none"]]

NextRequeue ==
    \/ \E stats \in BOOLEAN : NotifyServer(stats)
    \/ \E payload \in Payloads : NotifierPublish(payload)
    \/ BrokerDeliver
    \/ \E id \in NotificationIds : Info(id)
    \/ \E id \in NotificationIds, head \in BOOLEAN : Dispatched(id, head)

(***************************************************************************)
(* Concurrent polls.  Every iteration of poll, and stop, reconnect and     *)
(* cleanup, run inside "with self._lock", and the broker's deliveries are  *)
(* dispatched by process_data_events inside a poll iteration: each is one  *)
(* step, and the steps of the threads interleave.  start takes no lock and *)
(* is one assignment.  poll is called without timeout.                     *)
(***************************************************************************)
\* the threads that call poll
PollThreads == {"t1", "t2"}

\* the ids of the messages of list q, in their order
IdSeq(q) == [i \in 1..Len(q) |-> q[i].id]

\* the set of the ids of the messages of list q
IdSet(q) == {q[i].id : i \in 1..Len(q)}

\* the messages _cleanup deletes from buffer q
CleanupDiscards(q) ==
    { [id |-> q[i].id, need_ack |-> NeedAck(q[i])] :
          i \in { j \in 1..Len(q) : q[j].id \notin IdSet(SelectSeqNoAck(q)) } }

\* poll(prefetch_size=n) is called by thread th
ConcPollCall(th, n) ==
    /\ cPc[th] = "idle"
    /\ cPc' = [cPc EXCEPT ![th] = "polling"]
    /\ cPrefetch' = [cPrefetch EXCEPT ![th] = n]
    /\ UNCHANGED <<cPoller, cStarted, cNextMsg, cReturned, cDiscarded>>
    /\ UNCHANGED notCpVars

\* len(message_queue) < prefetch_size and started (timeout is None)
ConcPollCondition(th) ==
    /\ Len(cPoller.message_queue) < cPrefetch[th]
    /\ cStarted

\* poll is left by thread th
ConcPollExit(th) ==
    /\ cPc' = [cPc EXCEPT ![th] = "idle"]
    /\ cPrefetch' = [cPrefetch EXCEPT ![th] = 1]

\* an iteration of thread th that finds no channel and whose _reconnect
\* fails: the except clause, and the error leaves poll
ConcPollReconnectFails(th, at, err, done) ==
    /\ cPc[th] = "polling"
    /\ ConcPollCondition(th)
    /\ cPoller.channel = None
    /\ StepPossible(cPoller, at)
    /\ at # "create_connection" => cPoller.made < MaxConns
    /\ LET r == ReconnectBy("poll", cPoller, at, err, done)
       IN  /\ r.err # NoError
           /\ cPoller' = PollExcept(r.p, r.err)
           /\ cDiscarded' = IF IsConnectivityError(r.err)
                            THEN cDiscarded
                                     \cup CleanupDiscards(r.p.message_queue)
                            ELSE cDiscarded
    /\ ConcPollExit(th)
    /\ UNCHANGED <<cStarted, cNextMsg, cReturned>>
    /\ UNCHANGED notCpVars

\* an iteration of thread th that reconnects if there is no channel and
\* pumps broker I/O for one slice: the deliveries dl are dispatched, then
\* err is raised
ConcPollPump(th, dl, err) ==
    /\ cPc[th] = "polling"
    /\ ConcPollCondition(th)
    /\ cPoller.channel = None => cPoller.made < MaxConns
    /\ LET r == IF cPoller.channel = None
                THEN ReconnectBy("poll", cPoller, "none", NoError, 0)
                ELSE [p |-> cPoller, err |-> NoError]
       IN  /\ dl \in Deliveries(r.p)
           /\ cNextMsg + Len(dl) <= MaxMsgs + 1
           /\ cNextMsg' = cNextMsg + Len(dl)
           /\ LET p == Dispatch(r.p, dl, cNextMsg)
              IN  IF err = NoError
                  THEN /\ cPoller' = p
                       /\ UNCHANGED <<cPc, cPrefetch, cDiscarded>>
                  ELSE /\ cPoller' = PollExcept(p, err)
                       /\ cDiscarded' =
                             IF IsConnectivityError(err)
                             THEN cDiscarded
                                      \cup CleanupDiscards(p.message_queue)
                             ELSE cDiscarded
                       /\ ConcPollExit(th)
    /\ UNCHANGED <<cStarted, cReturned>>
    /\ UNCHANGED notCpVars

\* the else branch of an iteration of thread th: poll returns the first
\* prefetch_size buffered messages and deletes them from the buffer
ConcPollReturn(th) ==
    /\ cPc[th] = "polling"
    /\ ~ConcPollCondition(th)
    /\ cReturned' = [cReturned EXCEPT ![th] =
           @ \o IdSeq(Slice(cPoller.message_queue, cPrefetch[th]))]
    /\ cPoller' = [cPoller EXCEPT !.message_queue =
           DelSlice(cPoller.message_queue, cPrefetch[th])]
    /\ ConcPollExit(th)
    /\ UNCHANGED <<cStarted, cNextMsg, cDiscarded>>
    /\ UNCHANGED notCpVars

\* start()
ConcStart ==
    /\ cStarted' = TRUE
    /\ UNCHANGED <<cPoller, cNextMsg, cPc, cPrefetch, cReturned, cDiscarded>>
    /\ UNCHANGED notCpVars

\* stop()
ConcStop ==
    /\ cStarted' = (IF ~cStarted THEN cStarted ELSE FALSE)
    /\ UNCHANGED <<cPoller, cNextMsg, cPc, cPrefetch, cReturned, cDiscarded>>
    /\ UNCHANGED notCpVars

\* reconnect(); at = "none": no step of it fails
ConcReconnect(at, err, done) ==
    /\ at = "none" \/ StepPossible(Cleanup(cPoller), at)
    /\ at # "create_connection" => cPoller.made < MaxConns
    /\ cPoller' = PublicReconnect(cPoller, at, err, done)
    /\ cDiscarded' = cDiscarded \cup CleanupDiscards(cPoller.message_queue)
    /\ UNCHANGED <<cStarted, cNextMsg, cPc, cPrefetch, cReturned>>
    /\ UNCHANGED notCpVars

\* cleanup()
ConcCleanup ==
    /\ cPoller' = Cleanup(cPoller)
    /\ cDiscarded' = cDiscarded \cup CleanupDiscards(cPoller.message_queue)
    /\ UNCHANGED <<cStarted, cNextMsg, cPc, cPrefetch, cReturned>>
    /\ UNCHANGED notCpVars

CpInit ==
    /\ cPoller = InitPoller
    /\ cStarted = FALSE
    /\ cNextMsg = 1
    /\ cPc = [th \in PollThreads |-> "idle"]
    /\ cPrefetch = [th \in PollThreads |-> 1]
    /\ cReturned = [th \in PollThreads |-> <<>>]
    /\ cDiscarded = {}

NextConcurrentPoll ==
    \/ \E th \in PollThreads, n \in PrefetchSizes : ConcPollCall(th, n)
    \/ \E th \in PollThreads, at \in ReconnectSteps,
          err \in PikaErrors \cup {"ConnectionException"},
          done \in ConsumedBefore :
          /\ err \in StepErrors(at)
          /\ at # "basic_consume" => done = 0
          /\ ConcPollReconnectFails(th, at, err, done)
    \/ \E th \in PollThreads,
          dl \in Deliveries([consumers |-> DeclareQueueBinding]),
          err \in PikaErrors \cup {NoError} : ConcPollPump(th, dl, err)
    \/ \E th \in PollThreads : ConcPollReturn(th)
    \/ ConcStart
    \/ ConcStop
    \/ \E at \in ReconnectSteps \cup {"none"},
          err \in PikaErrors \cup {"ConnectionException", NoError},
          done \in ConsumedBefore :
          /\ IF at = "none" THEN err = NoError ELSE err \in StepErrors(at)
          /\ at # "basic_consume" => done = 0
          /\ ConcReconnect(at, err, done)
    \/ ConcCleanup

Init ==
    /\ PollerInit
    /\ SendInit
    /\ ListenerInit
    /\ LockInit
    /\ ReplyInit
    /\ NotifyInit
    /\ DriverInit
    /\ MsgInit
    /\ PoolInit
    /\ NpInit
    /\ RsInit
    /\ NqInit
    /\ CpInit

Spec == Init /\ [][NextPoller]_vars

\* a thread inside poll goes on running: its next iteration is eventually
\* executed, and the clock its deadline is measured by goes on
PollIteration(t) ==
    \/ PollTypeError(t)
    \/ \E at \in ReconnectSteps, err \in PikaErrors \cup {"ConnectionException"},
          done \in ConsumedBefore :
          /\ err \in StepErrors(at)
          /\ at # "basic_consume" => done = 0
          /\ PollReconnectFails(t, at, err, done)
    \/ \E dl \in Deliveries([consumers |-> DeclareQueueBinding]),
          err \in PikaErrors \cup {NoError} : PollPump(t, dl, err)
    \/ PollReturn(t)

\* the poll loop of one consumer thread, with the operations that change
\* what its loop condition reads (start, stop) and cleanup
NextPoll ==
    \/ \E t \in Threads, to \in Timeouts,
          n \in PrefetchSizes : PollCall(t, to, n)
    \/ \E t \in Threads : PollTypeError(t)
    \/ \E t \in Threads, at \in ReconnectSteps, err \in PikaErrors
                                                  \cup {"ConnectionException"},
          done \in ConsumedBefore :
          /\ err \in StepErrors(at)
          /\ at # "basic_consume" => done = 0
          /\ PollReconnectFails(t, at, err, done)
    \/ \E t \in Threads, dl \in Deliveries([consumers |-> DeclareQueueBinding]),
          err \in PikaErrors \cup {NoError} : PollPump(t, dl, err)
    \/ \E t \in Threads : PollReturn(t)
    \/ Tick
    \/ Start
    \/ Stop
    \/ CleanupCall

SpecPollFair ==
    /\ Init
    /\ [][NextPoll]_vars
    /\ \A t \in Threads : WF_vars(PollIteration(t))
    /\ WF_vars(Tick)

SpecLock == Init /\ [][NextLock]_vars

\* fair scheduling: a thread inside a with block goes on to its end, and a
\* thread waiting for a lock that is free again and again gets it
SpecLockFair ==
    /\ Init
    /\ [][NextLock]_vars
    /\ \A th \in LockThreads : SF_vars(Acquire(th))
    /\ \A th \in LockThreads : WF_vars(Body(th))

SpecReply == Init /\ [][NextReply]_vars

SpecNotify == Init /\ [][NextNotify]_vars

SpecDriver == Init /\ [][NextDriver]_vars

SpecMessage == Init /\ [][NextMessage]_vars

SpecPool == Init /\ [][NextPool]_vars

SpecNotificationPoller == Init /\ [][NextNotificationPoller]_vars

SpecRpcService == Init /\ [][NextRpcService]_vars

\* the broker goes on delivering to its consumer, and the server goes on
\* calling the endpoint and settling what it answered
SpecRequeueFair ==
    /\ Init
    /\ [][NextRequeue]_vars
    /\ WF_vars(BrokerDeliver)
    /\ WF_vars(\E id \in NotificationIds : Info(id))
    /\ WF_vars(\E id \in NotificationIds, head \in BOOLEAN : Dispatched(id, head))

SpecConcurrentPoll == Init /\ [][NextConcurrentPoll]_vars

SpecSend == Init /\ [][NextSend]_vars

\* the sender's thread goes on: an attempt ends, a retry wait ends
SpecSendFair ==
    /\ Init
    /\ [][NextSend]_vars
    /\ WF_vars(AttemptExpired)
    /\ WF_vars(\E ex \in SendErrors \cup {NoError} : AttemptPublish(ex))
    /\ WF_vars(RetryWait)

SpecListener == Init /\ [][NextListener]_vars

\* the callers' threads and the pump go on, and a deadline is reached;
\* whether a reply arrives and whether the driver is cleaned up is up to
\* the others
SpecListenerFair ==
    /\ Init
    /\ [][NextListener]_vars
    /\ \A c \in Callers : /\ WF_vars(CallPublished(c) \/ CallSendFails(c))
                          /\ WF_vars(CallReturns(c))
                          /\ WF_vars(CallTimesOut(c))
    /\ \A id \in MsgIds : WF_vars(Pump(id))

(***************************************************************************)
(* Properties of the poller.                                               *)
(***************************************************************************)
\* thread t leaves poll by its return statement in this step
Returns(t) == pc[t] = "polling" /\ pc'[t] = "idle" /\ raised'[t] = NoError

\* thread t leaves poll by an exception in this step
Raises(t) == pc[t] = "polling" /\ pc'[t] = "idle" /\ raised'[t] # NoError

Min(a, b) == IF a < b THEN a ELSE b

Ids(q) == { q[i].id : i \in 1..Len(q) }

\* the messages of q that were consumed in no-ack mode, in their order
NoAckOnly(q) == SelectSeq(q, LAMBDA m : m.channel = None)

\* the messages of q with an id below id, in their order
Before(q, id) == SelectSeq(q, LAMBDA m : m.id < id)

\* C1: a poll that returns hands back exactly the first
\* min(prefetch_size, buffered) messages of the buffer in buffer order and
\* removes exactly those from the buffer: never more than prefetch_size, and
\* no returned message stays in the buffer to be returned again.
C1_PollReturnsPrefix ==
    [][\A t \in Threads : Returns(t) =>
        LET q == poller.message_queue
            k == Min(prefetch_size[t], Len(q))
        IN /\ result'[t] = [i \in 1..k |-> q[i]]
           /\ poller'.message_queue = [i \in 1..(Len(q) - k) |-> q[i + k]]
           /\ Len(result'[t]) <= prefetch_size[t]
           /\ Ids(result'[t]) \cap Ids(poller'.message_queue) = {}
           /\ Cardinality(Ids(result'[t])) = Len(result'[t])]_pollerVars

\* a poll returned one of two buffered messages and left the other
C1_Witness ==
    \E t \in Threads :
        /\ pc[t] = "idle" /\ raised[t] = NoError
        /\ Len(result[t]) = 1 /\ result[t][1].id = 1
        /\ Len(poller.message_queue) = 1

\* C2: the messages handed to the application appear in the order of their
\* delivery by the broker (ids count the deliveries): within a returned list
\* the ids increase, and every returned message was delivered after all
\* messages returned by earlier polls.
C2_HandedInDeliveryOrder ==
    [][\A t \in Threads : Returns(t) =>
        /\ \A i, j \in 1..Len(result'[t]) :
              i < j => result'[t][i].id < result'[t][j].id
        /\ \A i \in 1..Len(result'[t]) : result'[t][i].id > handed
        /\ handed' >= handed]_pollerVars

\* the second message delivered was returned by a later poll than the first
C2_Witness ==
    \E t \in Threads :
        /\ pc[t] = "idle" /\ raised[t] = NoError
        /\ handed = 2 /\ Len(result[t]) = 1 /\ result[t][1].id = 2

\* what C3 and its original statement share: a poll that exits with a
\* connectivity error has unset channel and connection, holds no buffered
\* message that requires acknowledgement, and has kept the no-ack messages
\* it had buffered, in their order
DroppedAndPurged(t) ==
    /\ poller'.channel = None
    /\ poller'.connection = None
    /\ \A i \in 1..Len(poller'.message_queue) :
          ~NeedAck(poller'.message_queue[i])
    /\ Before(poller'.message_queue, nextMsg) = NoAckOnly(poller.message_queue)
    /\ NoAckOnly(poller'.message_queue) = poller'.message_queue

ReconnectsAfterLoss(t) ==
    /\ pc[t] = "polling"
    /\ poller.lost /\ poller.channel = None
    /\ poller'.channel # None /\ poller'.opened_by = "poll"
    /\ poller'.qos /\ poller'.queues_to_consume # <<>>

C5_BufferedAckMessagesOnCurrentChannel ==
    /\ [](\A i \in 1..Len(poller.message_queue) :
            NeedAck(poller.message_queue[i]) =>
                poller.message_queue[i].channel = poller.channel)
    /\ [][lastOp' # lastOp =>
            \E t \in Threads : \E i \in 1..Len(result[t]) :
                /\ result[t][i].id = lastOp'.delivery_tag
                /\ lastOp'.channel = result[t][i].channel
                /\ result[t][i].channel # poller.channel =>
                      lastOp'.channel # poller.channel]_pollerVars

\* a message delivered on the first channel is acknowledged after the
\* poller has reconnected, while a message of the new channel is buffered
C5_Witness ==
    /\ lastOp.op = "basic_ack" /\ lastOp.channel = 1
    /\ poller.channel = 2
    /\ \E i \in 1..Len(poller.message_queue) :
          NeedAck(poller.message_queue[i])

(***************************************************************************)
(* Properties of the reply listener.                                       *)
(***************************************************************************)
\* no two calls hold the same msg_id, and an entry of the waiter map is the
\* pending waiter of exactly one call
OneWaiterPerId ==
    /\ \A c1, c2 \in Callers :
          (c1 # c2 /\ msg_id[c1] # None) => msg_id[c1] # msg_id[c2]
    /\ \A id \in waiters :
          /\ sink[id] = "pending"
          /\ Cardinality({c \in Callers : msg_id[c] = id}) = 1

NeverCompletedTwice == \A id \in MsgIds : completions[id] <= 1

\* a call that has left was completed once, unless its send failed
CompletedOnceAtExit ==
    \A c \in Callers :
        (callPc[c] = "done" /\ callResult[c] # "send_failure") =>
            completions[msg_id[c]] = 1

HasDeadline(id) == \E c \in Callers : msg_id[c] = id /\ callTimeout[c] # None

\* C6 as stated: at most one waiter per correlation_id, and every registered
\* waiter is eventually completed, never twice (read in its weakest sense:
\* the waiter's entry eventually leaves the map, whichever way).
C6_Original ==
    /\ [](OneWaiterPerId /\ NeverCompletedTwice)
    /\ \A id \in MsgIds : (id \in waiters) ~> (id \notin waiters)

\* C6: at most one waiter per correlation_id; no waiter is completed more
\* than once; a call that leaves was completed exactly once (by the reply,
\* the deadline or cleanup) unless its send failed, in which case its waiter
\* is removed uncompleted; and every registered waiter of a call that has a
\* deadline eventually leaves the waiter map.
C6_WaitersCompletedAtMostOnce ==
    /\ [](OneWaiterPerId /\ NeverCompletedTwice /\ CompletedOnceAtExit)
    /\ \A id \in MsgIds : (id \in waiters /\ HasDeadline(id))
                              ~> (id \notin waiters)

\* one call was completed by its reply, whose second delivery was discarded,
\* and another by its deadline
C6_Witness ==
    /\ \E id1, id2 \in MsgIds : sink[id1] = "result" /\ sink[id2] = "timeout"
    /\ lastPump = "discarded"
    /\ \A c \in Callers : callPc[c] = "done"

\* C7: once a call has returned or raised, the waiter map has no entry for
\* its msg_id; and a reply that finds no waiter is discarded: it completes
\* no waiter and changes no call.
C7_WaiterRemovedOnEveryExit ==
    /\ [](\A c \in Callers : callPc[c] = "done" => msg_id[c] \notin waiters)
    /\ [][\A id \in MsgIds :
            (id \notin waiters /\ id \in replies /\ id \notin replies') =>
                UNCHANGED <<waiters, sink, completions, callPc,
                            callResult>>]_listenerVars

\* the reply of a call that timed out was discarded while another call
\* is waiting
C7_Witness ==
    \E c1, c2 \in Callers :
        /\ callPc[c1] = "done" /\ callResult[c1] = "MessagingTimeout"
        /\ sink[msg_id[c1]] = "timeout"
        /\ msg_id[c1] \notin replies /\ lastPump = "discarded"
        /\ callPc[c2] = "waiting" /\ msg_id[c2] \in waiters

(***************************************************************************)
(* Properties of the retry policy of an RPC send.                          *)
(***************************************************************************)
\* the broker has nacked every publish of the send
AllNacked == publishes >= 1 /\ nacks = publishes

\* every publish of the send failed with an error the send retries
AllTransient == transients = publishes

Retryable(ex) == ex \in {"ConnectionException", "MessageDeliveryFailure",
                         "MessageRejectedException"}

\* C8 as stated: with retry = N >= 1 and every publish nacked, the send makes
\* exactly N publish attempts, waits between them and raises
\* MessageDeliveryFailure.
C8_Original ==
    (sendPc = "done" /\ retry >= 1 /\ AllNacked) =>
        /\ IsInstance(sendRaised, "MessageDeliveryFailure")
        /\ publishes = retry
        /\ waits = retry - 1

\* C8: with retry = N >= 1 and every publish nacked, the send never makes
\* more than N publish attempts, with one wait before each attempt but the
\* first; it ends with MessageDeliveryFailure after exactly N attempts,
\* unless its deadline passes before the N-th attempt, in which case it ends
\* with MessagingTimeout after fewer.
C8_NAttemptsUnlessDeadline ==
    /\ (sendPc # "idle" /\ retry >= 1) =>
          /\ publishes <= retry
          /\ attempt_number = waits + 1
    /\ (sendPc = "done" /\ retry >= 1 /\ AllNacked) =>
          \/ /\ IsInstance(sendRaised, "MessageDeliveryFailure")
             /\ publishes = retry
             /\ waits = retry - 1
          \/ /\ sendRaised = "MessagingTimeout"
             /\ sendTimeout # None /\ now >= sendTimeout
             /\ publishes < retry
             /\ waits = publishes

\* a send with retry = 3 and no deadline has ended after three nacks
C8_Witness ==
    /\ sendPc = "done" /\ retry = 3 /\ sendTimeout = None
    /\ publishes = 3 /\ nacks = 3 /\ waits = 2
    /\ sendRaised = "MessageRejectedException"

\* C9: an attempt is followed by a retry only when it failed with
\* ConnectionException or MessageDeliveryFailure and retry is not 0; any
\* other failure ends the send with that failure, and with retry = 0 every
\* failure does, after one attempt; a send that has ended publishes no more.
C9_RetriesOnlyTransientFailures ==
    [][/\ sendPc' = "wait" => (Retryable(sendRaised') /\ retry # 0)
       /\ (sendPc = "attempt" /\ sendPc' # "attempt"
           /\ sendRaised' # NoError
           /\ (~Retryable(sendRaised') \/ retry = 0)) =>
              /\ sendPc' = "done"
              /\ publishes' <= publishes + 1
       /\ (retry = 0 /\ sendPc' = "done") =>
              (attempt_number' = 1 /\ publishes' <= 1)
       /\ sendPc = "done" => publishes' = publishes]_sendVars

\* after one retry the send has ended with a failure it does not retry
C9_Witness ==
    /\ sendPc = "done" /\ retry = -1
    /\ publishes = 2 /\ transients = 1 /\ waits = 1
    /\ sendRaised = "RoutingException"

\* C10: a send never publishes after its deadline; a send with retry = -1
\* and a deadline, all of whose publishes fail with errors it retries, ends
\* only with MessagingTimeout, once the deadline has passed; and it does end.
C10_UnboundedRetryEndsAtDeadline ==
    /\ [](~late)
    /\ [](/\ sendPc = "done" /\ retry = -1 /\ sendTimeout # None
          /\ AllTransient
          => sendRaised = "MessagingTimeout" /\ now >= sendTimeout)
    /\ (sendPc # "idle" /\ retry = -1 /\ sendTimeout # None)
           ~> (sendPc = "done")

\* a send with retry = -1 has ended with MessagingTimeout after two failed
\* publishes
C10_Witness ==
    /\ sendPc = "done" /\ retry = -1 /\ sendTimeout = 2
    /\ publishes = 2 /\ transients = 2
    /\ sendRaised = "MessagingTimeout"

(***************************************************************************)
(* Properties of the poller's life cycle.                                  *)
(***************************************************************************)
\* this step is an iteration of the poll of thread t: it leaves poll,
\* dispatches deliveries or opens a channel
PollStep(t) ==
    /\ pc[t] = "polling"
    /\ \/ pc'[t] = "idle"
       \/ nextMsg' # nextMsg
       \/ poller.channel = None /\ poller'.opened_by = "poll"

\* the step performs no broker I/O: nothing is delivered, and no field of
\* the poller but its buffer changes
NoBrokerIO ==
    /\ nextMsg' = nextMsg
    /\ poller' = [poller EXCEPT !.message_queue = poller'.message_queue]

\* the poll of thread t returns the head of the buffer in this step
ReturnsBuffered(t) ==
    /\ Returns(t)
    /\ result'[t] = Slice(poller.message_queue, prefetch_size[t])
    /\ result'[t] \o poller'.message_queue = poller.message_queue

\* stop() leaves everything but the started flag as it is
StopKeepsBuffer == (started /\ ~started') => poller' = poller

\* C11 as stated: while the poller is not running an iteration of poll does
\* no broker I/O and returns at once with the buffered messages; stop()
\* leaves the buffer alone.
C11_Original ==
    [][/\ \A t \in Threads : (~started /\ PollStep(t)) =>
              (NoBrokerIO /\ ReturnsBuffered(t))
       /\ StopKeepsBuffer]_pollerVars

\* C11, what holds: while the poller is not running an iteration of poll
\* does no broker I/O and ends the poll at once: it returns the buffered
\* messages, except that a poll called with timeout 0 raises TypeError;
\* stop() leaves the buffer alone.
C11_StoppedPollDoesNoIO ==
    [][/\ \A t \in Threads : (~started /\ PollStep(t)) =>
              /\ NoBrokerIO
              /\ \/ ReturnsBuffered(t)
                 \/ /\ Raises(t) /\ raised'[t] = "TypeError"
                    /\ timeout[t] = 0
                    /\ poller' = poller
       /\ StopKeepsBuffer]_pollerVars

\* a poll has returned a buffered message on a poller that was stopped with
\* its channel open and another message still buffered
C11_Witness ==
    \E t \in Threads :
        /\ ~started /\ poller.channel # None
        /\ pc[t] = "idle" /\ raised[t] = NoError
        /\ Len(result[t]) = 1 /\ Len(poller.message_queue) = 1

\* cleanup() has completed and nothing has touched the connection since
Cleaned == poller.opened_by = "cleaned"

HoldsNothing(p) == p.connection = None /\ p.channel = None

\* C12 as stated: cleanup() leaves the poller without connection and channel,
\* and Cleaned is final: in particular no later poll makes the poller hold
\* a connection or a channel again.
C12_Original ==
    /\ [](Cleaned => HoldsNothing(poller))
    /\ [][(Cleaned /\ \E t \in Threads : PollStep(t)) =>
            HoldsNothing(poller')]_pollerVars

\* C12, what holds: cleanup() leaves the poller, from any state, without
\* connection, channel and buffered messages that require acknowledgement;
\* afterwards a poll connects again only if the poller is started (cleanup
\* does not stop it), so only reconnect() makes a poller that was stopped
\* before its cleanup hold a connection again.
C12_CleanupDropsConnection ==
    /\ [](Cleaned =>
            /\ HoldsNothing(poller)
            /\ poller.consumers = {}
            /\ \A i \in 1..Len(poller.message_queue) :
                  ~NeedAck(poller.message_queue[i]))
    /\ [][(Cleaned /\ ~HoldsNothing(poller')) =>
            \/ started /\ \E t \in Threads : PollStep(t)
            \/ poller'.opened_by = "reconnect"]_pollerVars

\* a poll has opened a channel on a poller whose cleanup() had completed
C12_Witness ==
    /\ poller.opened_by = "poll" /\ poller.channel # None
    /\ poller.made = 1 /\ started
    /\ poller.live = {1}

(***************************************************************************)
(* C13: a poll with a finite positive timeout ends.                        *)
(***************************************************************************)

\* a poll called with a finite positive timeout is in progress
TimedPoll(t) == pc[t] = "polling" /\ timeout[t] # None /\ timeout[t] > 0

\* the deadline of the poll of thread t has passed
DeadlinePassed(t) == TimedPoll(t) /\ expiration_time[t] <= 0

\* C13: a poll called with a finite positive timeout always ends, whatever
\* the broker delivers or fails to deliver: it is left by a return, or by the
\* error a broker operation raised.  Once its deadline has passed, its next
\* iteration pumps no broker I/O and returns the buffered messages, at most
\* prefetch_size of them and possibly none.
C13_TimedPollReturns ==
    /\ \A t \in Threads : TimedPoll(t) ~> pc[t] = "idle"
    /\ [][\A t \in Threads :
            (DeadlinePassed(t) /\ PollStep(t)) =>
                /\ NoBrokerIO
                /\ ReturnsBuffered(t)
                /\ Len(result'[t]) <= prefetch_size[t]]_pollerVars

\* a timed poll of a running poller that pumped at least once (the poll
\* opened the channel), met its deadline with no message delivered, and
\* returned the empty list
C13_Witness ==
    \E t \in Threads :
        /\ started
        /\ pc[t] = "idle"
        /\ raised[t] = NoError
        /\ result[t] = <<>>
        /\ poller.opened_by = "poll"
        /\ poller.channel # None
        /\ nextMsg = 1

(***************************************************************************)
(* C14, C15: the lock of a poller.                                         *)
(***************************************************************************)

\* the step changes state the lock guards
Mutates == guarded' # guarded

\* the thread that takes the step holds the lock
ActorHoldsLock == lock # None /\ lock = actor'

\* only the thread inside a with block holds the lock
MutualExclusion ==
    \A th \in LockThreads : lockPc[th] \in {"held", "pumping"} <=> lock = th

\* C14 as stated: every mutation of the poller's state, by start, stop, poll,
\* reconnect or cleanup, is performed by a thread that holds the lock.
C14_Original == [][Mutates => ActorHoldsLock]_lockVars

\* C14, what the code keeps: the with blocks exclude each other, and every
\* mutation of the guarded state is performed by the thread that holds the
\* lock, except start's write of the started flag, which takes no lock.
C14_MutationsLockedExceptStart ==
    /\ []MutualExclusion
    /\ [][Mutates =>
            \/ ActorHoldsLock
            \/ /\ guarded' = [guarded EXCEPT !.started = TRUE]
               /\ UNCHANGED <<lock, lockPc, lockOp>>]_lockVars

\* start() has just set the started flag while another thread was inside
\* the with block of a poll iteration
C14_Witness ==
    /\ lock # None
    /\ actor # None
    /\ actor # lock
    /\ lockPc[actor] = "idle"
    /\ lockOp[lock] = "poll"
    /\ guarded.started

\* the thread waits for the lock in stop, reconnect or cleanup
WaitsForLock(th) ==
    lockPc[th] = "acquire" /\ lockOp[th] \in {"stop", "reconnect", "cleanup"}

ReplyQueueConsumed(p) ==
    /\ p.connection
    /\ p.channel
    /\ p.qos
    /\ p.queues_to_consume = <<ReplyDeclareQueueBinding>>
    /\ p.exists
    /\ p.consumers = ReplyDeclareQueueBinding

\* C16: when start(timeout) has returned normally, the poller is started
\* and connected and its reply queue is declared, exists and is consumed;
\* start returns only from an attempt that succeeded, and when the retrier
\* stops (attempts or delay used up) after a failed attempt, start raises
\* that attempt's exception and the poller holds no connection.
C16_StartReturnsConnected ==
    /\ [](startPc = "returned" =>
             replyStarted /\ ReplyQueueConsumed(replyPoller))
    /\ [](startPc = "raised" =>
             /\ startRaised # NoError
             /\ ReplyShouldStop(startAttempt, startElapsed)
             /\ ~replyPoller.connection
             /\ ~replyPoller.channel
             /\ replyPoller.consumers = {})
    /\ [][(startPc = "attempt" /\ startPc' = "returned") =>
             /\ startRaised' = NoError
             /\ ReplyQueueConsumed(replyPoller')]_replyVars

\* start(timeout=2) returned from its second attempt, the last one the
\* retrier would have made, after a first attempt that failed
C16_Witness ==
    /\ startPc = "returned"
    /\ startAttempt = 2
    /\ replyAttempts = 2
    /\ startTimeout = 2
    /\ ReplyQueueConsumed(replyPoller)

(***************************************************************************)
(* C17, C18, C19: send_notification and the re-declaration of the binding. *)
(***************************************************************************)

\* another attempt follows the failed one
AnotherAttemptFollows ==
    notifyPc = "wait" \/ (notifyPc = "attempt" /\ notifyAttempt > 1)

\* the re-declaration ran since the failed attempt: it declared the
\* binding, or its ConnectionException was logged
RedeclarationRan ==
    \/ redeclared = "declared" /\ declared.declared
    \/ redeclared = "ConnectionException"

\* C17: in send_notification, when a publish attempt failed with
\* ExchangeNotFoundException or RoutingException and another attempt
\* follows, the re-declaration of the target's binding has run between the
\* two (and the binding exists when it succeeded); when the attempt failed
\* with ConnectionException or MessageRejectedException, the next attempt
\* follows with no re-declaration; a publish that fails with anything else
\* ends the send with that failure.
C17_RedeclaresBeforeNextAttempt ==
    /\ [](AnotherAttemptFollows =>
             \/ NeedsRedeclare(notifyFailure) /\ RedeclarationRan
             \/ RetriedAsIs(notifyFailure) /\ redeclared = "no")
    /\ [][(notifyPc = "on_exception" /\ redeclared' = "declared") =>
             bound']_notifyVars
    /\ [][(/\ notifyPc = "attempt"
           /\ notifyPc' # "attempt"
           /\ notifyFailure' # NoError
           /\ ~NeedsRedeclare(notifyFailure')
           /\ ~RetriedAsIs(notifyFailure')) =>
             (notifyPc' = "done" /\ notifyRaised' = notifyFailure')]_notifyVars

\* the second attempt is about to publish after a RoutingException whose
\* re-declaration bound the queue
C17_Witness ==
    /\ notifyPc = "attempt"
    /\ notifyAttempt = 2
    /\ notifyFailure = "RoutingException"
    /\ redeclared = "declared"
    /\ bound

\* the retrier goes on after on_exception: to the wait before the next
\* attempt, or, with the attempts used up, to raising the publish failure
GoesOnAfterRedeclare ==
    \/ notifyPc' = "wait"
    \/ /\ notifyPc' = "done"
       /\ NotifyShouldStop(notifyAttempt)
       /\ notifyRaised' = notifyFailure

\* C18 as stated: whatever the failure of the re-declaration is, it does not
\* end the retry loop: the publish is attempted again, subject to the
\* attempt bound.
C18_Original ==
    [][(notifyPc = "on_exception" /\ notifyPc' # "on_exception") =>
          GoesOnAfterRedeclare]_notifyVars

\* C18, what the code does: a re-declaration that fails with
\* ConnectionException does not end the retry loop; one that fails with
\* anything else (the MessagingTimeout of a pool timeout, an error of the
\* declaration) ends the send with that failure.
C18_OnlyConnectionExceptionSwallowed ==
    [][(notifyPc = "on_exception" /\ notifyPc' # "on_exception") =>
          IF redeclared' \in {"declared", "ConnectionException"}
          THEN GoesOnAfterRedeclare
          ELSE notifyPc' = "done" /\ notifyRaised' = redeclared']_notifyVars

\* a send_notification with unbounded retry was ended by the
\* MessagingTimeout of the re-declaration that followed a RoutingException
C18_Witness ==
    /\ notifyPc = "done"
    /\ notifyRetry = -1
    /\ notifyFailure = "RoutingException"
    /\ declared.pool = "PoolTimeout"
    /\ redeclared = "MessagingTimeout"
    /\ notifyRaised = "MessagingTimeout"

\* the call was made with a negative timeout
NegativeTimeout(d) == d.timeout # None /\ d.timeout < 0

\* C19: _declare_notification_queue_binding never raises the pool's
\* timeout: a pool acquire timeout leaves it as MessagingTimeout, and so
\* send_notification never ends with the pool's timeout; a call with a
\* negative timeout raises MessagingTimeout, acquires no connection and
\* declares nothing.
C19_PoolTimeoutBecomesMessagingTimeout ==
    /\ [](/\ declared.raised # "PoolTimeout"
          /\ notifyRaised # "PoolTimeout"
          /\ declared.pool = "PoolTimeout" =>
                declared.raised = "MessagingTimeout"
          /\ NegativeTimeout(declared) =>
                /\ declared.raised = "MessagingTimeout"
                /\ ~declared.acquired
                /\ ~declared.declared)
    /\ [][(declared' # declared /\ NegativeTimeout(declared')) =>
             bound' = bound]_notifyVars

\* a call with timeout 1 whose pool acquire timed out
C19_Witness ==
    /\ declared.timeout = 1
    /\ declared.pool = "PoolTimeout"
    /\ declared.raised = "MessagingTimeout"
    /\ ~declared.acquired

(***************************************************************************)
(* C20: PikaDriver.send, casts and calls.                                  *)
(***************************************************************************)

\* the send of caller c has ended after msg.send returned
EndedWithReply(c) == dsPc[c] = "done" /\ sendOutcome[c].kind # "none"

\* C20: send passes the reply listener to the outgoing message exactly when
\* wait_for_reply is true.  A cast registers no waiter, and when its publish
\* succeeded it returns None.  A call whose reply arrived returns the
\* reply's result when the reply carries no failure and raises the reply's
\* failure when it carries one: exactly one of the two.
C20_ReplyListenerIffWaitForReply ==
    /\ [](\A c \in Callers :
             /\ dsPc[c] # "idle" =>
                   (reply_listener[c] <=> Truthy(wait_for_reply[c]))
             /\ ~Truthy(wait_for_reply[c]) => ~registered[c]
             /\ dsPc[c] = "replied" =>
                   (reply[c] = <<>> <=> ~Truthy(wait_for_reply[c])))
    /\ [][\A c \in Callers :
             (dsPc[c] = "replied" /\ dsPc'[c] = "done") =>
                 IF ~Truthy(wait_for_reply[c])
                 THEN sendOutcome'[c] = [kind |-> "returned", value |-> "None"]
                 ELSE IF reply[c][1].failure = NoError
                 THEN sendOutcome'[c] =
                         [kind |-> "returned", value |-> reply[c][1].result]
                 ELSE sendOutcome'[c] =
                         [kind |-> "raised", value |-> reply[c][1].failure]
         ]_driverVars

\* a cast has returned None with no waiter registered, and a call has
\* raised the failure its reply carried
C20_Witness ==
    \E c1, c2 \in Callers :
        /\ dsPc[c1] = "done" /\ wait_for_reply[c1] = "False"
        /\ ~registered[c1]
        /\ sendOutcome[c1] = [kind |-> "returned", value |-> "None"]
        /\ dsPc[c2] = "done" /\ wait_for_reply[c2] = "True"
        /\ registered[c2]
        /\ reply[c2] # <<>>
        /\ sendOutcome[c2] = [kind |-> "raised", value |-> "RemoteError"]

(***************************************************************************)
(* C21.  An outgoing RPC message sent with a reply listener is published   *)
(* exactly once, mandatory, with a fresh msg_id as its correlation_id and  *)
(* the listener's reply queue as its reply_to; a waiter is registered      *)
(* under that msg_id and send returns the waiter's result.  Sent without a *)
(* reply listener it is published exactly once with neither correlation_id *)
(* nor reply_to, and no waiter is registered.                              *)
(***************************************************************************)
LastPublish == publishLog'[Len(publishLog')]

PublishedOnce == Len(publishLog') = Len(publishLog) + 1

\* a msg_id no waiter was registered under before
Fresh(id) == \A i \in 1..Len(waiterLog) : waiterLog[i] # id

C21_RpcSendPublishesOnce ==
    [][\A listener \in BOOLEAN, future \in FutureResults :
          RpcSend(listener, future) =>
              /\ PublishedOnce
              /\ LastPublish.mandatory
              /\ IF listener
                 THEN /\ LastPublish.correlation_id # None
                      /\ Fresh(LastPublish.correlation_id)
                      /\ LastPublish.reply_to = <<ReplyQname>>
                      /\ waiterLog' = Append(waiterLog,
                                             LastPublish.correlation_id)
                      /\ returned' = <<future>>
                 ELSE /\ LastPublish.correlation_id = None
                      /\ LastPublish.reply_to = <<>>
                      /\ waiterLog' = waiterLog
      ]_vars

\* a cast was published, and then a call, which returned its waiter's result
C21_Witness ==
    /\ lastCall = [op |-> "rpc_send", arg |-> "call"]
    /\ Len(publishLog) = 2
    /\ publishLog[1].correlation_id = None
    /\ publishLog[1].reply_to = <<>>
    /\ publishLog[2].correlation_id = 1
    /\ publishLog[2].reply_to = <<ReplyQname>>
    /\ waiterLog = <<1>>
    /\ returned = <<"it is a result">>

(***************************************************************************)
(* C22.  reply() on an incoming RPC message that carries a correlation id  *)
(* and a reply_to sends exactly one reply message: to the reply exchange,  *)
(* with the request's reply_to as routing key and the request's msg_id as  *)
(* correlation_id, carrying either the result or the failure, under a      *)
(* retrier bounded by rpc_reply_retry_attempts with the fixed delay        *)
(* rpc_reply_retry_delay.                                                  *)
(***************************************************************************)
\* the body carries the failure, or else the result
EitherResultOrFailure(body, r) ==
    IF r.failure # <<>> THEN body.e = r.failure /\ body.s = <<>>
    ELSE body.e = <<>> /\ body.s = r.reply

C23_ReplyToCastPublishesNothing ==
    [][\A m \in RpcIncoming, r \in ReplyArgs :
          (Reply(m, r) /\ m.msg_id = None /\ m.reply_q = <<>>) =>
              /\ UNCHANGED <<publishLog, poolUse, outgoing>>
              /\ replyPc' = "idle"
      ]_vars

\* reply() was called on a cast and nothing was published
C23_Witness ==
    /\ lastCall = [op |-> "reply", arg |-> "cast"]
    /\ msgOps = MaxOps
    /\ publishLog = <<>>
    /\ poolUse = [p \in Pools |-> 0]

(***************************************************************************)
(* C24.  acknowledge() and requeue() each issue exactly one broker         *)
(* operation on the channel that delivered the message, with its delivery  *)
(* tag (basic_ack, and basic_nack with requeue=true), when the message was *)
(* consumed in ack mode; for a message consumed in no-ack mode (it has no  *)
(* channel) neither issues any broker operation.                           *)
(***************************************************************************)
C24_SettleIssuesOneOperation ==
    [][\A c \in PollerChannels, no_ack \in BOOLEAN, tag \in DeliveryTags :
          /\ Acknowledge(IncomingMessage(c, no_ack, tag)) =>
                IF no_ack THEN brokerLog' = brokerLog
                ELSE brokerLog' = Append(brokerLog,
                         [op |-> "basic_ack", channel |-> <<c>>,
                          delivery_tag |-> tag, requeue |-> FALSE])
          /\ Requeue(IncomingMessage(c, no_ack, tag)) =>
                IF no_ack THEN brokerLog' = brokerLog
                ELSE brokerLog' = Append(brokerLog,
                         [op |-> "basic_nack", channel |-> <<c>>,
                          delivery_tag |-> tag, requeue |-> TRUE])
      ]_vars

\* a message consumed in ack mode was requeued, and then one consumed in
\* no-ack mode was acknowledged without any broker operation
C24_Witness ==
    /\ lastCall = [op |-> "acknowledge", arg |-> "no_ack"]
    /\ msgOps = 2
    /\ brokerLog = <<[op |-> "basic_nack", channel |-> <<"channel">>,
                      delivery_tag |-> 1, requeue |-> TRUE]>>

(***************************************************************************)
(* C25.  Parsing a reply envelope yields exactly one of a result and a     *)
(* failure; the failure is re-created as its original kind only when its   *)
(* module is in allowed_remote_exmods, and as a generic RemoteError with   *)
(* the same text otherwise; the reply keeps the correlation id as its      *)
(* msg_id.  (The result of a success envelope may itself be None.)         *)
(***************************************************************************)
C25_ParseYieldsResultOrFailure ==
    [][\A i \in 1..MaxOps :
          ReplyReceived(i) =>
              LET body == publishLog[i].body
                  message == parsed'[1]
              IN  /\ message.msg_id = publishLog[i].correlation_id
                  /\ body.e = <<>> =>
                        /\ message.failure = <<>>
                        /\ message.result = body.s
                  /\ body.e # <<>> =>
                        /\ message.result = <<>>
                        /\ Len(message.failure) = 1
                        /\ message.failure[1].text = body.e[1].s
                        /\ message.failure[1].trace = body.e[1].t
                        /\ body.e[1].m \in AllowedRemoteExmods =>
                              message.failure[1].kind = body.e[1].c
                        /\ body.e[1].m \notin AllowedRemoteExmods =>
                              message.failure[1].kind = "RemoteError"
      ]_vars

\* the failure of a module that is not allowed was parsed to a RemoteError
C25_Witness ==
    /\ Len(parsed) = 1
    /\ parsed[1].msg_id \in 1..2
    /\ parsed[1].result = <<>>
    /\ Len(parsed[1].failure) = 1
    /\ parsed[1].failure[1].kind = "RemoteError"
    /\ parsed[1].failure[1].text = "No such file"

(***************************************************************************)
(* C26.  A generic send that succeeds without retry publishes exactly      *)
(* once, on a connection of the with-confirmation pool when confirm is     *)
(* true and of the without-confirmation pool when it is false, and never   *)
(* touches the other pool; the message's delivery_mode is 2 exactly when   *)
(* persistent is true, and 1 otherwise.                                    *)
(***************************************************************************)
C26_SendUsesThePoolOfConfirm ==
    [][\A confirm \in BOOLEAN, mandatory \in BOOLEAN, persistent \in BOOLEAN :
          MsgSend(confirm, mandatory, persistent) =>
              LET used == IF confirm
                          THEN "connection_with_confirmation_pool"
                          ELSE "connection_without_confirmation_pool"
              IN  /\ PublishedOnce
                  /\ LastPublish.pool = used
                  /\ poolUse'[used] = poolUse[used] + 1
                  /\ \A p \in Pools \ {used} : poolUse'[p] = poolUse[p]
                  /\ LastPublish.delivery_mode = IF persistent THEN 2 ELSE 1
                  /\ LastPublish.mandatory = mandatory
      ]_vars

\* a persistent message was sent with confirmation and a transient one
\* without
C26_Witness ==
    /\ lastCall = [op |-> "send", arg |-> ""]
    /\ Len(publishLog) = 2
    /\ publishLog[1].pool = "connection_with_confirmation_pool"
    /\ publishLog[1].delivery_mode = 2
    /\ publishLog[2].pool = "connection_without_confirmation_pool"
    /\ publishLog[2].delivery_mode = 1
    /\ poolUse = [p \in Pools |-> 1]

(***************************************************************************)
(* C27.  A pooled connection lease is returned on every exit from the      *)
(* scope it is leased for, normal or by an application error, and is       *)
(* discarded instead of returned when the scope is left by a               *)
(* connectivity-invalidation error; no exit leaves the connection neither  *)
(* released nor discarded.  (Released is: idle in the pool again, or, when *)
(* the pool already keeps pool_max_size idle connections, closed by the    *)
(* release as a connection of the overflow.)                               *)
(***************************************************************************)
\* the callers that hold connection c, and the places it has in the queue
Holders(c) == {t \in Leasers : lease[t] = c}

Places(c) == {i \in 1..Len(poolQueue) : poolQueue[i] = c}

LeavesScope(t) == leasePc[t] = "in" /\ leasePc'[t] # "in"

C28_IdleOrOwnedByOne ==
    /\ \A c \in poolLive :
          Cardinality(Places(c)) + Cardinality(Holders(c)) = 1
    /\ \A t \in Leasers : lease[t] # None => lease[t] \in poolLive
    /\ \A i \in 1..Len(poolQueue) : poolQueue[i] \in poolLive

\* of two connections one is idle, after its release, and one is leased
C28_Witness ==
    /\ Cardinality(poolLive) = 2
    /\ Len(poolQueue) = 1
    /\ \E t, u \in Leasers :
          /\ lease[t] # None
          /\ leaseEnd[u] \in {"normal", "application error"}

(***************************************************************************)
(* C29.  The number of live connections of a pool (idle and leased) never  *)
(* exceeds pool_max_size + pool_max_overflow; an acquire that finds no     *)
(* free slot until its timeout elapses fails with PoolTimeout instead of   *)
(* creating a connection beyond the bound.                                 *)
(***************************************************************************)
PoolBound == IF PoolCreated THEN pool_max_size + pool_max_overflow ELSE 0

NoFreeSlot == poolQueue = <<>> /\ Cardinality(poolLive) = PoolBound

C29_PoolSizeBounded ==
    /\ [](Cardinality(poolLive) <= PoolBound)
    /\ [][\A t \in Leasers :
             /\ (leasePc[t] = "waiting" /\ NoFreeSlot
                    /\ leasePc'[t] # "waiting") =>
                    /\ leaseEnd'[t] = "PoolTimeout"
                    /\ leasePc'[t] = "out"
                    /\ lease'[t] = None
                    /\ poolLive' = poolLive
             /\ (leaseEnd'[t] = "PoolTimeout" /\ leasePc[t] = "waiting") =>
                    NoFreeSlot
         ]_vars

\* a caller's acquire timed out on a pool at its bound, overflow included
C29_Witness ==
    \E t \in Leasers :
        /\ leaseEnd[t] = "PoolTimeout"
        /\ leasePc[t] = "out"
        /\ pool_max_overflow = 1
        /\ Cardinality(poolLive) = PoolBound
        /\ poolQueue = <<>>

(***************************************************************************)
(* C30.  A notification poller declares, for each (target, priority) it    *)
(* was given, a direct exchange and a binding with routing key             *)
(* topic.priority to the queue topic.priority, or to the queue named by    *)
(* the pool when it was given one.  With a pool the set of queues it       *)
(* consumes is exactly the one pool queue, without a pool exactly one      *)
(* queue per distinct topic.priority; every queue is consumed in ack mode. *)
(***************************************************************************)
GivenPairs == {npTargets[i] : i \in 1..Len(npTargets)}

ConsumedQueues == {npConsumers[i].queue : i \in 1..Len(npConsumers)}

C30_NotificationTopology ==
    npPc = "consuming" =>
        /\ \A tp \in GivenPairs :
              \E b \in npDeclared :
                  /\ b.exchange_type = "direct"
                  /\ b.exchange = IF tp.target.exchange = <<>>
                                  THEN DefaultNotificationExchange
                                  ELSE tp.target.exchange[1]
                  /\ b.routing_key = <<tp.target.topic, tp.priority>>
                  /\ b.queue = IF npPool = <<>>
                               THEN <<tp.target.topic, tp.priority>>
                               ELSE npPool
        /\ \A b \in npDeclared :
              \E tp \in GivenPairs :
                  b.routing_key = <<tp.target.topic, tp.priority>>
        /\ ConsumedQueues =
              IF npPool = <<>>
              THEN {<<tp.target.topic, tp.priority>> : tp \in GivenPairs}
              ELSE {npPool}
        /\ Cardinality(ConsumedQueues) = Len(npConsumers)
        /\ \A i \in 1..Len(npConsumers) : ~npConsumers[i].no_ack

\* a poller with a pool consumes the one pool queue for two different
\* topic.priority
C30_Witness ==
    /\ npPc = "consuming"
    /\ npPool = <<"pool">>
    /\ Cardinality({<<tp.target.topic, tp.priority>> : tp \in GivenPairs}) = 2
    /\ Cardinality(npDeclared) = 2
    /\ npConsumers = <<[queue |-> <<"pool">>, no_ack |-> FALSE]>>

(***************************************************************************)
(* C31.  An RPC service poller declares, for each ack mode, a direct       *)
(* exchange bound to the topic queue and to the per-server queue and a     *)
(* fanout exchange bound to the per-server queue.  The queue-set it        *)
(* returns and consumes holds each declared queue exactly once, with the   *)
(* ack mode under which it was declared; for a target with a server these  *)
(* are four queues, two per ack mode.                                      *)
(***************************************************************************)
\* the positions of queue q in the list of items d
ItemsOf(d, q) == {i \in 1..Len(d) : d[i].queue = q}

\* the topology of listener l is the one of its target
TopologyOf(l) ==
    \A no_ack \in BOOLEAN :
        LET suffix == IF no_ack THEN <<"no_ack">> ELSE <<>>
            topic_queue == <<l.target.topic>> \o suffix
            server_queue == <<l.target.topic>> \o l.target.server \o suffix
            direct == {b \in l.declared : b.pass = no_ack
                                          /\ b.exchange_type = "direct"}
            fanout == {b \in l.declared : b.pass = no_ack
                                          /\ b.exchange_type = "fanout"}
        IN  /\ {<<b.queue, b.routing_key>> : b \in direct} =
                   {<<topic_queue, topic_queue>>,
                    <<server_queue, server_queue>>}
            /\ Cardinality({b.exchange : b \in direct}) = 1
            /\ {<<b.queue, b.routing_key>> : b \in fanout} =
                   {<<server_queue, <<>> >>}
            /\ Cardinality({b.exchange : b \in fanout}) = 1
            /\ {b.exchange : b \in direct} # {b.exchange : b \in fanout}

C31_RpcServiceTopology ==
    \A i \in 1..Len(listeners) :
        LET l == listeners[i]
        IN  l.pc = "consuming" =>
            /\ TopologyOf(l)
            /\ \A b \in l.declared :
                  /\ Cardinality(ItemsOf(l.queues_to_consume, b.queue)) = 1
                  /\ \A k \in ItemsOf(l.queues_to_consume, b.queue) :
                        l.queues_to_consume[k].no_ack = b.pass
            /\ \A k \in 1..Len(l.queues_to_consume) :
                  \E b \in l.declared :
                      b.queue = l.queues_to_consume[k].queue
            /\ l.consumers = l.queues_to_consume
            /\ l.target.server # <<>> =>
                  /\ Len(l.consumers) = 4
                  /\ \A no_ack \in BOOLEAN :
                        Cardinality({k \in 1..4 :
                            l.consumers[k].no_ack = no_ack}) = 2

\* a poller for a target with a server consumes four queues, and one for a
\* target without a server the two topic queues, each once
C31_Witness ==
    /\ Len(listeners) = 2
    /\ listeners[1].pc = "consuming"
    /\ listeners[1].target.server = <<"s1">>
    /\ Len(listeners[1].consumers) = 4
    /\ Cardinality(listeners[1].declared) = 6
    /\ listeners[2].pc = "consuming"
    /\ listeners[2].target.server = <<>>
    /\ Len(listeners[2].consumers) = 2

(***************************************************************************)
(* C32.  A notification to which the endpoint answers REQUEUE on its first *)
(* delivery and which it accepts on the next is requeued once and          *)
(* acknowledged once: the broker delivers it again, it is delivered twice  *)
(* in total and handled once, it is not lost and not delivered a third     *)
(* time.                                                                   *)
(***************************************************************************)
\* message id is with the broker or with the consumer
Held(id) ==
    \/ \E i \in 1..Len(nqQueue) : nqQueue[i].id = id
    \/ \E m \in nqUnacked : m.id = id

RequeuedFirst(id) == nqLog[id].first = "REQUEUE"

\* message id was delivered twice, requeued once, then handled and
\* acknowledged once, and is gone from the broker
SettledAfterRequeue(id) ==
    /\ nqLog[id].delivered = 2
    /\ nqLog[id].requeued = 1
    /\ nqLog[id].acked = 1
    /\ nqLog[id].handled = 1
    /\ ~Held(id)

C32_RequeuedOnceThenHandled ==
    \A id \in NotificationIds :
        /\ [](RequeuedFirst(id) =>
                /\ nqLog[id].delivered <= 2
                /\ nqLog[id].requeued <= 1
                /\ nqLog[id].acked <= 1
                /\ nqLog[id].handled <= 1
                /\ Held(id) \/ SettledAfterRequeue(id))
        /\ (RequeuedFirst(id) ~> SettledAfterRequeue(id))
        /\ [](RequeuedFirst(id) /\ SettledAfterRequeue(id)
                  => [](SettledAfterRequeue(id)))

\* two notifications with different payloads were both requeued on their
\* first delivery and handled on the second
C32_Witness ==
    /\ \A id \in NotificationIds :
          RequeuedFirst(id) /\ SettledAfterRequeue(id)
    /\ count = 2 * MaxNotifications
    /\ Len(cache) = MaxNotifications

(***************************************************************************)
(* C33.  A poll with timeout 0 on a running poller.                        *)
(***************************************************************************)
\* C33 as stated: poll with timeout=0 on a running poller takes the deadline
\* as reached: its iteration returns at once with the buffered messages, up
\* to prefetch_size of them, without connecting or pumping and without
\* raising.
C33_Original ==
    [][\A t \in Threads : (started /\ timeout[t] = 0 /\ PollStep(t)) =>
           (NoBrokerIO /\ ReturnsBuffered(t))]_pollerVars

\* C33, what holds: poll with timeout=0 on a running poller neither
\* connects nor pumps, and it does not return either: its first iteration
\* raises TypeError and leaves the buffer as it is.
C33_ZeroTimeoutPollRaises ==
    [][\A t \in Threads : (started /\ timeout[t] = 0 /\ PollStep(t)) =>
           /\ NoBrokerIO
           /\ Raises(t) /\ raised'[t] = "TypeError"
           /\ result'[t] = <<>>
           /\ poller' = poller]_pollerVars

\* a poll on a running poller with an open channel and a buffered message
\* has ended with TypeError and returned nothing
C33_Witness ==
    \E t \in Threads :
        /\ started /\ poller.channel # None
        /\ pc[t] = "idle" /\ raised[t] = "TypeError"
        /\ result[t] = <<>>
        /\ Len(poller.message_queue) >= 1

(***************************************************************************)
(* C34.  RpcReplyPikaPoller.start with rpc_reply_retry_attempts = -1.      *)
(***************************************************************************)
\* the attempt made in this step fails
AttemptFails == startPc = "attempt" /\ startRaised' # NoError

\* the timeout given to start has elapsed
StartTimedOut == startTimeout # None /\ startElapsed >= startTimeout

\* C34 as stated: with rpc_reply_retry_attempts = -1, start goes on
\* retrying a failing reconnect, waiting between the attempts, until a
\* reconnect succeeds or the timeout has elapsed: it raises only when the
\* timeout has elapsed, and not after the first failed attempt.
C34_Original ==
    [][(replyAttempts = -1 /\ AttemptFails) =>
           IF StartTimedOut THEN startPc' = "raised"
           ELSE startPc' = "wait"]_replyVars

\* C34, what holds: with rpc_reply_retry_attempts = -1, start makes one
\* attempt: when the first reconnect fails, start raises its exception,
\* whatever the timeout, and no second attempt is made.
C34_DefaultAttemptsGiveUpAtFirstFailure ==
    /\ [][(replyAttempts = -1 /\ AttemptFails) =>
              (startAttempt = 1 /\ startPc' = "raised")]_replyVars
    /\ [](replyAttempts = -1 => startPc # "wait" /\ startAttempt <= 1)

\* start(timeout=2) with rpc_reply_retry_attempts = -1 has raised after its
\* first attempt, with the timeout not elapsed
C34_Witness ==
    /\ replyAttempts = -1
    /\ startPc = "raised"
    /\ startAttempt = 1
    /\ startTimeout = 2
    /\ startElapsed = 0
    /\ startRaised # NoError

(***************************************************************************)
(* C40.  The poller after a start that raised.                             *)
(***************************************************************************)
\* a poll is made in this step on a poller whose start had raised
PollAfterStartRaised == startPc = "raised" /\ startPc' = "polled"

\* C40 as stated: when start has raised, the poller is not started and
\* holds no connection and no channel, and a later poll neither connects
\* nor pumps.
C40_Original ==
    /\ [](startPc = "raised" =>
             /\ ~replyStarted
             /\ ~replyPoller.connection
             /\ ~replyPoller.channel)
    /\ [][PollAfterStartRaised => replyPoller' = replyPoller]_replyVars

\* C40, what holds: when start has raised, the poller holds no connection
\* and no channel and consumes nothing, but it is started: a later poll
\* calls _reconnect, and when no step of it fails the poller is connected
\* and consumes its reply queue.
C40_StartRaisedLeavesStarted ==
    /\ [](startPc = "raised" =>
             /\ replyStarted
             /\ ~replyPoller.connection
             /\ ~replyPoller.channel
             /\ replyPoller.consumers = {})
    /\ [][PollAfterStartRaised =>
             replyPoller' \in
                 {ReplyPollIteration(replyPoller, TRUE, at, err) :
                      at \in ReconnectSteps \cup {"none"},
                      err \in PikaErrors \cup {"ConnectionException"}}]_replyVars
    /\ [][(PollAfterStartRaised /\ replyPoller'.consumers # {}) =>
             ReplyQueueConsumed(replyPoller')]_replyVars

\* after a start that raised, a poll has connected the poller, which now
\* consumes its reply queue
C40_Witness ==
    /\ startPc = "polled"
    /\ startRaised # NoError
    /\ replyStarted
    /\ ReplyQueueConsumed(replyPoller)

(***************************************************************************)
(* C35.  The cached queue-set and a failing basic_consume.                 *)
(***************************************************************************)
\* the step runs a _reconnect that got as far as creating a connection
ReconnectRuns == poller'.made = poller.made + 1

\* the poller p consumes every queue of its cached queue-set
ConsumesAll(p) ==
    /\ p.channel # None
    /\ p.queues_to_consume # <<>>
    /\ p.consumers = p.queues_to_consume[1]

\* C35: when a basic_consume fails during a reconnect, so that the
\* reconnect has consumed some of its queues and not all, the cached
\* queue-set is cleared, and the next reconnect that gets as far declares
\* again.  A cached queue-set is never changed; it is cleared only by a
\* reconnect that did not consume all its queues; and a reconnect that finds
\* it cached consumes its queues without declaring.
C35_FailedConsumeClearsQueueSet ==
    [][/\ (ReconnectRuns /\ poller'.consumers # {}) =>
              (ConsumesAll(poller') \/ poller'.queues_to_consume = <<>>)
       /\ poller.queues_to_consume # <<>> =>
              poller'.queues_to_consume \in {poller.queues_to_consume, <<>>}
       /\ (poller.queues_to_consume # <<>>
           /\ poller'.queues_to_consume = <<>>) =>
              /\ ReconnectRuns
              /\ poller'.consumers # poller.queues_to_consume[1]
              /\ ~poller'.declared
       /\ (ReconnectRuns /\ poller.queues_to_consume # <<>>
           /\ ConsumesAll(poller')) => ~poller'.declared
       /\ (ReconnectRuns /\ poller.queues_to_consume = <<>>
           /\ ConsumesAll(poller')) =>
              /\ poller'.declared
              /\ poller'.queues_to_consume = <<DeclareQueueBinding>>
      ]_pollerVars

\* the second connection's _reconnect found the queue-set cached, declared
\* nothing, consumed some of its queues and failed on the next: the
\* queue-set is cleared
C35_Witness ==
    /\ poller.made = 2
    /\ poller.channel = 2
    /\ ~poller.declared
    /\ poller.consumers # {}
    /\ poller.consumers # DeclareQueueBinding
    /\ poller.queues_to_consume = <<>>

(***************************************************************************)
(* C36.  The public reconnect().                                           *)
(***************************************************************************)
\* the step is a call of reconnect() that changes the poller: no poll
\* iteration (which would leave poll, dispatch, or open the channel as
\* "poll") and no cleanup()
ReconnectStep ==
    /\ pc' = pc
    /\ nextMsg' = nextMsg
    /\ poller' # poller
    /\ poller'.opened_by \notin {"poll", "cleaned"}

NoOperationInProgress == \A t \in Threads : pc[t] = "idle"

\* basic_qos was applied to the channel of p and basic_consume issued for
\* every queue of its queue-set
ChannelSetUp(p) == p.qos /\ ConsumesAll(p)

\* C37 as stated: whenever no operation is in progress and the poller holds
\* a channel, the channel is set up: basic_qos applied and every queue of
\* the queue-set consumed.
C37_Original ==
    (NoOperationInProgress /\ poller.channel # None) => ChannelSetUp(poller)

\* C37, what holds: a channel opened by reconnect() is set up whenever the
\* poller holds it; a channel that is not set up was opened by a poll whose
\* _reconnect failed after opening it, and it stays as it is for as long
\* as the poller holds it: the later polls pump it without setting it up.
C37_ChannelOfReconnectIsSetUp ==
    /\ [](poller.channel # None =>
             /\ poller.opened_by \in {"poll", "reconnect"}
             /\ poller.opened_by = "reconnect" => ChannelSetUp(poller)
             /\ poller.consumers # {} => poller.qos)
    /\ [][(poller.channel # None /\ ~ChannelSetUp(poller)
           /\ poller'.channel = poller.channel) =>
              /\ poller'.consumers = poller.consumers
              /\ poller'.qos = poller.qos]_pollerVars

\* a poll has ended with the error of a failed declaration: the poller holds
\* a channel with basic_qos set on which nothing is consumed, and no
\* operation is in progress
C37_Witness ==
    /\ NoOperationInProgress
    /\ \E t \in Threads : raised[t] = "OtherError"
    /\ poller.channel # None
    /\ poller.qos
    /\ poller.declared
    /\ poller.consumers = {}
    /\ poller.queues_to_consume = <<>>

(***************************************************************************)
(* C38.  The connections a poller has created.                             *)
(***************************************************************************)
\* the connections of p that are open and not its current connection
Leaked(p) == p.live \ {p.connection}

\* C38 as stated: every connection the poller created is its current
\* connection or closed.
C38_Original == Leaked(poller) = {}

\* C38, what holds: a connection is left open behind only by a poll that
\* finds a connection without a channel (a poll's _reconnect had failed at
\* connection.channel() with an error that is no connectivity error) and
\* creates another over it; reconnect() and cleanup() close the current
\* connection and leave the ones left behind as they are.
C38_LeakOnlyByPollOverChannellessConnection ==
    [][Leaked(poller') # Leaked(poller) =>
          /\ poller.connection # None
          /\ poller.channel = None
          /\ ReconnectRuns
          /\ \E t \in Threads : pc[t] = "polling"
          /\ Leaked(poller') = Leaked(poller) \cup {poller.connection}
      ]_pollerVars

\* the first connection is open and no longer the poller's, which holds the
\* second
C38_Witness ==
    /\ poller.made = 2
    /\ poller.connection = 2
    /\ poller.channel = 2
    /\ poller.live = {1, 2}
    /\ ChannelSetUp(poller)

(***************************************************************************)
(* C39: concurrent polls on one poller                                     *)
(***************************************************************************)
\* the positions of the lists of returned messages
ReturnSlots == {<<th, i>> : th \in PollThreads, i \in 1..(cNextMsg - 1)}

\* how many times the polls of all threads have returned message id
TimesReturned(id) ==
    Cardinality({x \in ReturnSlots :
                    /\ x[2] <= Len(cReturned[x[1]])
                    /\ cReturned[x[1]][x[2]] = id})

\* message id is in the buffer
Buffered(id) == id \in IdSet(cPoller.message_queue)

\* message id was neither returned nor is it buffered
Lost(id) == TimesReturned(id) = 0 /\ ~Buffered(id)

\* C39: when several threads poll one poller, every message delivered to the
\* poller is returned to at most one poll caller and at most once, a
\* returned message is no longer buffered, and a message that is neither
\* returned nor still buffered is one that required an acknowledgement and
\* was discarded by a cleanup.
C39_ConcurrentPollsReturnEachMessageOnce ==
    \A id \in 1..(cNextMsg - 1) :
        /\ TimesReturned(id) <= 1
        /\ ~(TimesReturned(id) = 1 /\ Buffered(id))
        /\ Lost(id) => [id |-> id, need_ack |-> TRUE] \in cDiscarded

\* a thread has been returned a message while another thread is inside poll
\* or has been returned a message too, and a further message was lost to a
\* cleanup
C39_Witness ==
    /\ \E th \in PollThreads :
          /\ cReturned[th] # <<>>
          /\ \E other \in PollThreads \ {th} :
                \/ cPc[other] = "polling"
                \/ cReturned[other] # <<>>
    /\ \E id \in 1..(cNextMsg - 1) :
          Lost(id) /\ [id |-> id, need_ack |-> TRUE] \in cDiscarded

====
